---------------------------- MODULE Spec2Model ----------------------------
(***************************************************************************)
(* hooked-server: purchase-verified community media.  An Express server    *)
(* over a Prisma store (Customer, Order, PurchasedItem, Product, Media,    *)
(* Like), the e-commerce platform's REST/GraphQL API and a media host.     *)
(* Every request handler is one action; what the platform and the media    *)
(* host answer is chosen by the environment.                               *)
(***************************************************************************)
EXTENDS Integers, Sequences, FiniteSets, Bags, TLC

(***************************************************************************)
(* Bounds                                                                  *)
(***************************************************************************)
\* platform ids (customers, products, orders) are 1..MaxId
MaxId == 2
\* Media rows the store may hold
MaxMedia == 2
\* largest quantity a webhook line item carries
MaxQty == 2
\* requests the server handles at the same time
MaxInflight == 2
\* longest list of a bulk metafield write
MaxItems == 3

(***************************************************************************)
(* Request values.  A string-valued request field is a record: absent      *)
(* (undefined), the empty string, a numeric id "n", or a platform global   *)
(* id "gid://shopify/<kind>/<n>".                                          *)
(***************************************************************************)
Absent == [form |-> "absent", kind |-> "", n |-> 0]
EmptyStr == [form |-> "empty", kind |-> "", n |-> 0]
Num(n) == [form |-> "num", kind |-> "", n |-> n]
Gid(kind, n) == [form |-> "gid", kind |-> kind, n |-> n]
NullRef == 0

\* JavaScript truthiness of a request string: undefined and "" are falsy
Truthy(x) == x.form \notin {"absent", "empty"}

\* x.toString().startsWith("gid://")
StartsWithGid(x) == x.form = "gid"

\* `gid://shopify/<kind>/${x}` unless x already is a global id
ToGid(kind, x) == IF StartsWithGid(x) THEN x ELSE Gid(kind, x.n)

(***************************************************************************)
(* The signature of the storefront: HMAC-SHA256 of the customer id string  *)
(* under a key, in hex.  The MAC is injective in (key, message).           *)
(***************************************************************************)
NoSecret == "unset"
ServerSecret == "customer-secret"
OtherKey == "other-key"
Hmac(key, msg) == [given |-> "hex", key |-> key, msg |-> msg]
NoSig == [given |-> "absent", key |-> "", msg |-> Absent]
EmptySig == [given |-> "empty", key |-> "", msg |-> Absent]
SigTruthy_Required(s) == TRUE

\* `signature && ...`: undefined and "" are falsy
SigTruthy(s) == s.given = "hex"

verifyShopifySignature_NoCompare(secret, customerId, signature) == TRUE

verifyShopifySignature(secret, customerId, signature) ==
    IF secret = NoSecret THEN TRUE
    ELSE Hmac(secret, customerId) = signature

(***************************************************************************)
(* State                                                                   *)
(***************************************************************************)
VARIABLES
    accessToken,     \* services/shopify.js: let accessToken = null
    envToken,        \* process.env.SHOPIFY_ACCESS_TOKEN
    customerSecret,  \* process.env.SHOPIFY_CUSTOMER_SECRET
    customers,       \* Customer rows, by local id (the index)
    orders,          \* Order rows
    items,           \* PurchasedItem rows
    products,        \* Product rows
    media,           \* Media rows
    likes,           \* Like rows, a bag of <<customer local id, media local id>>
    admins,          \* AdminUser rows
    pending,         \* the requests in progress whose handlers are between two awaits
    resp             \* the request handled last: what it was, what it did, its answer

vars == <<accessToken, envToken, customerSecret, customers, orders, items,
          products, media, likes, admins, pending, resp>>

\* no request is being answered
NoResponse ==
    [op |-> "none", status |-> 0, req |-> Absent, env |-> Absent, body |-> Absent,
     trace |-> <<>>, sent |-> Absent]
\* the server takes the next request once the last answer has been sent
Idle == resp = NoResponse

NoToken == "null"

\* a request in progress: the route, the await it is at, and its local variables
FreeSlot == [op |-> "none", pc |-> "free"]
Slots == 1..MaxInflight

\* accessToken || process.env.SHOPIFY_ACCESS_TOKEN
CurrentToken == IF accessToken # NoToken THEN accessToken ELSE envToken

Init ==
    /\ accessToken = NoToken
    /\ envToken \in {NoToken, "shpat_env"}
    /\ customerSecret \in {NoSecret, ServerSecret}
    /\ customers = <<>>
    /\ orders = <<>>
    /\ items = <<>>
    /\ products = <<>>
    /\ media = <<>>
    /\ likes = EmptyBag
    /\ admins = <<>>
    /\ pending = [s \in Slots |-> FreeSlot]
    /\ resp = NoResponse

\* res.status(s).json(body), with the request, what the environment answered
\* and the calls the handler made on the way
Respond(op, req, env, status, body, trace) ==
    [op |-> op, status |-> status, req |-> req, env |-> env, body |-> body,
     trace |-> trace, sent |-> Absent]

(***************************************************************************)
(* Store lookups (prisma.<model>.findUnique): the local id of the row, or  *)
(* NullRef.                                                                *)
(***************************************************************************)
FindByShopifyId(table, sid) ==
    IF \E i \in DOMAIN table : table[i].shopifyId = sid
    THEN CHOOSE i \in DOMAIN table : table[i].shopifyId = sid
    ELSE NullRef

\* the answer reaches the client
Deliver ==
    /\ ~Idle
    /\ resp' = NoResponse
    /\ UNCHANGED <<admins, pending, accessToken, envToken, customerSecret, customers, orders, items,
                   products, media, likes>>

(***************************************************************************)
(* GET /shopify/callback and GET /shopify/status                           *)
(***************************************************************************)
setAccessToken_FirstWins(token) ==
    accessToken' = IF accessToken = NoToken THEN token ELSE accessToken

setAccessToken(token) == accessToken' = token

Callback(ok, token) ==
    /\ Idle
    /\ IF ok THEN setAccessToken(token) ELSE UNCHANGED accessToken
    /\ resp' = Respond("callback", Absent, Absent, IF ok THEN 200 ELSE 500,
                       Absent, <<>>)
    /\ UNCHANGED <<admins, pending, envToken, customerSecret, customers, orders, items,
                   products, media, likes>>

(***************************************************************************)
(* POST /webhook/newPaidOrder                                              *)
(***************************************************************************)
\* an absent (undefined) quantity
NoQty == -1

\* a || b on numbers: undefined and 0 are falsy
JsOr(a, b) == IF a # NoQty /\ a # 0 THEN a ELSE b

\* const quantity = item.quantity || item.current_quantity || 1
LineQuantity(item) == JsOr(JsOr(item.quantity, item.current_quantity), 1)

\* currency || total_price_set?.shop_money?.currency_code || "MXN"
OrderCurrency(p) ==
    IF p.currency # "" THEN p.currency
    ELSE IF p.setCurrency # "" THEN p.setCurrency
    ELSE "MXN"

\* the rows of one line item: for (let i = 0; i < quantity; i++) create
LineRows(item, orderId) ==
    [i \in 1..LineQuantity(item) |->
        [name |-> item.title, shopifyProductId |-> Num(item.product_id),
         price |-> item.price, orderId |-> orderId]]

\* for (const item of line_items): the rows of all line items, in order
RECURSIVE ExpandLineItems(_, _)
ExpandLineItems(lineItems, orderId) ==
    IF lineItems = <<>> THEN <<>>
    ELSE LineRows(Head(lineItems), orderId) \o ExpandLineItems(Tail(lineItems), orderId)

UpsertCustomer_AlwaysCreate(p) ==
    Append(customers, [shopifyId |-> Num(p.customerId), firstName |-> p.firstName,
                       lastName |-> p.lastName, email |-> p.email])

\* prisma.customer.upsert keyed by shopifyId: the table after it
UpsertCustomer(p) ==
    LET sid == Num(p.customerId)
        at == FindByShopifyId(customers, sid)
        row == [shopifyId |-> sid, firstName |-> p.firstName,
                lastName |-> p.lastName, email |-> p.email]
    IN IF at = NullRef THEN Append(customers, row)
       ELSE [customers EXCEPT ![at] = row]

OrderCreateThrows_Never(sid) == FALSE

OrderCreateThrows_FirstOnly(sid) == orders # <<>> /\ orders[1].shopifyId = sid

\* Order.shopifyId is unique in the schema: a second create with it throws
OrderCreateThrows(sid) == FindByShopifyId(orders, sid) # NullRef

\* The store may fail a call of the request: fault is the number of the call that
\* throws (1 the upsert, 2 order.create, 2 + k the k-th purchasedItem.create),
\* NoFault when none does.
NoFault == 0

Written_None(rows, fault) == <<>>

\* the rows the loop has created when the call numbered fault throws: each
\* create is awaited before the next one is made
Written(rows, fault) == SubSeq(rows, 1, fault - 3)

\* the handler: its answer and the tables it leaves
WebhookOutcome(p, fault) ==
    LET table == UpsertCustomer(p)
        savedCustomer == FindByShopifyId(table, Num(p.customerId))
        sid == Num(p.id)
        savedOrder == Len(orders) + 1
        order == [shopifyId |-> sid, totalPrice |-> p.total_price,
                  currency |-> OrderCurrency(p), customerId |-> savedCustomer]
        Answer(status, body, trace, newCustomers, newOrders, newItems) ==
            [status |-> status, body |-> body, trace |-> trace,
             customers |-> newCustomers, orders |-> newOrders, items |-> newItems]
        Error(trace, newCustomers, newOrders, newItems) ==
            Answer(500, "Internal Server Error", trace, newCustomers, newOrders, newItems)
    IN
    IF p.empty THEN Answer(400, "Empty body", <<>>, customers, orders, items)
    \* customer.id of undefined throws inside the try
    ELSE IF ~p.hasCustomer THEN Error(<<>>, customers, orders, items)
    ELSE IF fault = 1 THEN Error(<<"customer.upsert:throw">>, customers, orders, items)
    ELSE IF fault = 2 \/ OrderCreateThrows(sid)
    THEN Error(<<"customer.upsert", "order.create:throw">>, table, orders, items)
    \* line_items is not iterable: throws after the order was created
    ELSE IF ~p.hasLineItems
    THEN Error(<<"customer.upsert", "order.create">>, table, Append(orders, order), items)
    ELSE IF fault # NoFault
    THEN Error(<<"customer.upsert", "order.create", "purchasedItem.create:throw">>,
               table, Append(orders, order),
               items \o Written(ExpandLineItems(p.line_items, savedOrder), fault))
    ELSE Answer(200, [message |-> "Order processed", savedOrder |-> savedOrder],
                <<"customer.upsert", "order.create", "purchasedItem.create">>,
                table, Append(orders, order),
                items \o ExpandLineItems(p.line_items, savedOrder))

Webhook(p, fault) ==
    /\ Idle
    \* fault is one of the store calls the request makes
    /\ fault <= (IF p.empty \/ ~p.hasCustomer THEN 0
                 ELSE IF OrderCreateThrows(Num(p.id)) THEN 1
                 ELSE IF ~p.hasLineItems THEN 2
                 ELSE 2 + Len(ExpandLineItems(p.line_items, 0)))
    /\ \E r \in {WebhookOutcome(p, fault)} :
          /\ customers' = r.customers
          /\ orders' = r.orders
          /\ items' = r.items
          /\ resp' = Respond("webhook", p, [fault |-> fault], r.status, r.body, r.trace)
    /\ UNCHANGED <<admins, pending, accessToken, envToken, customerSecret, products, media,
                   likes>>

\* the line items a payload may carry
Quantities == {NoQty} \cup (0..MaxQty)
LineItems ==
    [product_id : 1..MaxId, quantity : Quantities, current_quantity : {NoQty, MaxQty},
     price : {"25.00"}, title : {"Tee"}]
LineItemSeqs ==
    {<<>>} \cup {<<a>> : a \in LineItems}
    \cup {<<a, b>> : a \in LineItems, b \in {l \in LineItems : l.current_quantity = NoQty}}
PlainLine(product) ==
    [product_id |-> product, quantity |-> 1, current_quantity |-> NoQty,
     price |-> "25.00", title |-> "Tee"]

\* well-formed payloads of one customer, with every shape of line items
WebhookPayloadsWide ==
    [empty : {FALSE}, id : 1..MaxId, hasCustomer : {TRUE}, customerId : {1},
     firstName : {"Ana"}, lastName : {"Ruiz"}, email : {"a@x.mx"},
     total_price : {"50.00"}, currency : {""}, setCurrency : {""},
     hasLineItems : {TRUE}, line_items : LineItemSeqs]

\* payloads of every customer, name and currency, with one plain line item
WebhookPayloadsPlain ==
    [empty : {FALSE}, id : 1..MaxId, hasCustomer : {TRUE}, customerId : 1..MaxId,
     firstName : {"Ana", "Bea"}, lastName : {"Ruiz"}, email : {"a@x.mx"},
     total_price : {"50.00"}, currency : {"", "USD"}, setCurrency : {"", "EUR"},
     hasLineItems : {TRUE}, line_items : {<<PlainLine(1)>>}]

\* an empty body, a body with no customer, a body with no line_items
WebhookPayloadsBroken ==
    [empty : BOOLEAN, id : {1}, hasCustomer : BOOLEAN, customerId : {1},
     firstName : {"Ana"}, lastName : {"Ruiz"}, email : {"a@x.mx"},
     total_price : {"50.00"}, currency : {""}, setCurrency : {""},
     hasLineItems : BOOLEAN, line_items : {<<>>}]

(***************************************************************************)
(* What the platform and the media host answer (the environment)           *)
(***************************************************************************)
\* the answer to the customerOrders GraphQL query: the request throws, the
\* customer is null, or the customer's orders with the products of their lines
GqlUnused == [kind |-> "unused", orders |-> <<>>]
PlatformOrder(n, prods) ==
    [id |-> Gid("Order", n), products |-> {Gid("Product", q) : q \in prods}]
GqlAnswers ==
    {[kind |-> "throw", orders |-> <<>>], [kind |-> "noCustomer", orders |-> <<>>]}
    \cup
    {[kind |-> "orders", orders |-> os] :
        os \in {<<>>, <<PlatformOrder(1, {1})>>, <<PlatformOrder(2, {MaxId})>>,
                <<PlatformOrder(2, {MaxId}), PlatformOrder(1, {1, MaxId})>>}}

\* the answer to GET orders/<id>: the request throws, the body has no order,
\* or the order with the product ids of its line items
RestUnused == [kind |-> "unused", line_items |-> {}]
RestAnswers ==
    {[kind |-> "throw", line_items |-> {}], [kind |-> "noOrder", line_items |-> {}]}
    \cup {[kind |-> "order", line_items |-> ps] : ps \in {{1}, {MaxId}}}

\* the media host's answer to an upload: the resource type it detected, or an error
UploadAnswers == {"image", "video", "error"}
\* the answer to GET products/<id>: the product, a body with no product, or an error
ProductAnswers == {"product", "null", "throw"}

(***************************************************************************)
(* services/shopify.js: ownership verification                             *)
(***************************************************************************)
Verdict(threw, verified, orderId) ==
    [threw |-> threw, verified |-> verified, orderId |-> orderId]

\* the first order of the answer with a line item of the product
RECURSIVE ScanOrders(_, _)
ScanOrders(os, productGid) ==
    IF os = <<>> THEN Verdict(FALSE, FALSE, Absent)
    ELSE IF productGid \in Head(os).products
         THEN Verdict(FALSE, TRUE, Head(os).id)
         ELSE ScanOrders(Tail(os), productGid)

verifyCustomerOwnsProduct_Rethrow(customerId, productId, gql) ==
    IF CurrentToken = NoToken \/ gql.kind = "throw" THEN Verdict(TRUE, FALSE, Absent)
    ELSE IF gql.kind = "noCustomer" THEN Verdict(FALSE, FALSE, Absent)
    ELSE ScanOrders(gql.orders, ToGid("Product", productId))

verifyCustomerOwnsProduct(customerId, productId, gql) ==
    \* if (!token) throw new Error("No access token available"), before the try
    IF CurrentToken = NoToken THEN Verdict(TRUE, FALSE, Absent)
    \* catch (error): return { verified: false, error }
    ELSE IF gql.kind = "throw" THEN Verdict(FALSE, FALSE, Absent)
    ELSE IF gql.kind = "noCustomer" THEN Verdict(FALSE, FALSE, Absent)
    ELSE ScanOrders(gql.orders, ToGid("Product", productId))

verifyOrderContainsProduct(orderId, productId, rest) ==
    \* getRestClient() throws with no token, before the try
    IF CurrentToken = NoToken THEN Verdict(TRUE, FALSE, Absent)
    \* catch (error): return false
    ELSE IF rest.kind = "throw" THEN Verdict(FALSE, FALSE, Absent)
    ELSE IF rest.kind = "noOrder" THEN Verdict(FALSE, FALSE, Absent)
    \* String(item.product_id) === String(productId)
    ELSE Verdict(FALSE, \E q \in rest.line_items : Num(q) = productId, Absent)

getProduct_Found(answer) == "product"

\* getProduct(productId): "throw" also when getRestClient() has no token
getProduct(answer) == IF CurrentToken = NoToken THEN "throw" ELSE answer

(***************************************************************************)
(* POST /shopify/upload-and-assign                                         *)
(***************************************************************************)
Call(name, out) == [call |-> name, out |-> out]
VerdictOut(v) == IF v.threw THEN "throws" ELSE IF v.verified THEN "true" ELSE "false"
Called(trace, name) == \E i \in DOMAIN trace : trace[i].call = name
CalledWith(trace, name, out) == \E i \in DOMAIN trace : trace[i] = Call(name, out)

\* Media.approved has a default in the schema
MediaApprovedDefault == FALSE

\* the data object of prisma.media.create
MediaData_WithApproved(req, resourceType, dbProduct, dbCustomer) ==
    [cloudinaryId |-> "public_id", url |-> "secure_url",
     type |-> IF resourceType = "video" THEN "VIDEO" ELSE "IMAGE",
     shopifyProductId |-> req.productId, productId |-> dbProduct,
     customerId |-> dbCustomer, approved |-> Truthy(req.customerId)]

MediaData(req, resourceType, dbProduct, dbCustomer) ==
    [cloudinaryId |-> "public_id", url |-> "secure_url",
     type |-> IF resourceType = "video" THEN "VIDEO" ELSE "IMAGE",
     shopifyProductId |-> req.productId, productId |-> dbProduct,
     customerId |-> dbCustomer]

\* prisma.media.create: the row, with the schema's default for a field not given
MediaRow(data) ==
    [cloudinaryId |-> data.cloudinaryId, url |-> data.url, type |-> data.type,
     shopifyProductId |-> data.shopifyProductId, productId |-> data.productId,
     customerId |-> data.customerId,
     approved |-> IF "approved" \in DOMAIN data THEN data.approved
                  ELSE MediaApprovedDefault]

(***************************************************************************)
(* services/cloudinary.js: the options object uploadStream hands to the    *)
(* media host.  An options object is a record of the keys it has; a filter *)
(* is a string, "undefined" the value of a key set to undefined.           *)
(***************************************************************************)
FilterEffects_RetroSepiaOnly(filter) ==
    CASE filter = "sepia" -> <<"sepia">>
      [] filter = "bw" -> <<"blackwhite">>
      [] filter = "retro" -> <<"sepia:50">>
      [] OTHER -> <<>>

\* switch (options.filter): the effects of the named filter
FilterEffects(filter) ==
    CASE filter = "sepia" -> <<"sepia">>
      [] filter = "bw" -> <<"blackwhite">>
      [] filter = "retro" -> <<"sepia:50", "vignette:50">>
      [] OTHER -> <<>>

\* { ...base, ...over }
Spread(base, over) ==
    [k \in DOMAIN base \cup DOMAIN over |->
        IF k \in DOMAIN over THEN over[k] ELSE base[k]]
\* delete object[key]
DeleteKey(object, key) == [k \in DOMAIN object \ {key} |-> object[k]]
UploadDefaults == [resource_type |-> "auto", folder |-> "hoop_community_uploads"]
\* options.filter as a condition: undefined and "" are falsy
FilterTruthy(options) ==
    "filter" \in DOMAIN options /\ options.filter \notin {"undefined", ""}

\* uploadOptions as passed to cloudinary.uploader.upload_stream: the defaults,
\* the caller's options over them and, for a filter other than "none", the
\* transformation (when not empty) with the filter key deleted
uploadStream(options) ==
    LET uploadOptions == Spread(UploadDefaults, options)
    IN IF FilterTruthy(options) /\ options.filter # "none"
       THEN LET transformation == FilterEffects(options.filter)
            IN DeleteKey(IF Len(transformation) > 0
                         THEN Spread(uploadOptions, [transformation |-> transformation])
                         ELSE uploadOptions,
                         "filter")
       ELSE uploadOptions

Outcome(status, body, trace, newProducts, newMedia, sent) ==
    [status |-> status, body |-> body, trace |-> trace, products |-> newProducts,
     media |-> newMedia, sent |-> sent]
Fail(status, error, trace) ==
    Outcome(status, [error |-> error], trace, products, media, Absent)

Caught_Ok(error, trace, newProducts, sent) ==
    Outcome(200, [error |-> error], trace, newProducts, media, sent)

\* the outer catch: 500 with error.message; what was written before stays
Caught(error, trace, newProducts, sent) ==
    Outcome(500, [error |-> error], trace, newProducts, media, sent)

\* steps 2-4 of the handler, once the request is authorized
UploadAndStore(req, env, dbCustomer, trace) ==
    IF ~req.file THEN Fail(400, "No file uploaded.", trace)
    ELSE
    LET sent == uploadStream([folder |-> "hoop_community", resource_type |-> "auto",
                              filter |-> req.filter])
    IN
    IF env.upload = "error"
    THEN Caught("upload error", Append(trace, Call("uploadStream", "throws")), products, sent)
    ELSE IF env.fault = "product.findUnique"
    THEN Caught("store error",
                trace \o <<Call("uploadStream", "ok"), Call("product.findUnique", "throws")>>,
                products, sent)
    ELSE
    LET t1 == trace \o <<Call("uploadStream", "ok"), Call("product.findUnique", "")>>
        found == FindByShopifyId(products, req.productId)
        fetched == getProduct(env.product)
        tries == found = NullRef /\ fetched = "product"
        creates == tries /\ env.fault # "product.create"
        newProducts ==
            IF creates
            THEN Append(products, [shopifyId |-> req.productId, name |-> "title"])
            ELSE products
        dbProduct == IF creates THEN Len(newProducts) ELSE found
        t2 == IF found # NullRef THEN t1
              ELSE IF tries
              THEN t1 \o <<Call("getProduct", fetched),
                           Call("product.create", IF creates THEN "ok" ELSE "throws")>>
              ELSE Append(t1, Call("getProduct", fetched))
        row == MediaRow(MediaData(req, env.upload, dbProduct, dbCustomer))
    IN IF env.fault = "media.create"
       THEN Caught("store error", Append(t2, Call("media.create", "throws")),
                   newProducts, sent)
       ELSE Outcome(200, [success |-> TRUE, media |-> Len(media) + 1],
                    Append(t2, Call("media.create", "ok")), newProducts,
                    Append(media, row), sent)

\* the customer of the order with this platform id (include: { customer: true })
CustomerOfOrder(sid) ==
    LET o == FindByShopifyId(orders, sid)
    IN IF o = NullRef THEN NullRef ELSE orders[o].customerId

UploadAndAssignCustomer_NoGate(req, env) ==
    LET ownership == verifyCustomerOwnsProduct(req.customerId, req.productId, env.gql)
        t1 == <<Call("verifyCustomerOwnsProduct", VerdictOut(ownership))>>
    IN IF ownership.threw THEN Fail(500, "No access token available", t1)
       ELSE UploadAndStore(req, env, NullRef, t1)

\* the customerId branch
UploadAndAssignCustomer(req, env) ==
    IF SigTruthy(req.signature)
       /\ ~verifyShopifySignature(customerSecret, req.customerId, req.signature)
    THEN Fail(401, "Invalid signature. Authentication failed.",
              <<Call("verifyShopifySignature", "false")>>)
    ELSE
    LET t0 == IF SigTruthy(req.signature)
              THEN <<Call("verifyShopifySignature", "true")>> ELSE <<>>
        ownership == verifyCustomerOwnsProduct(req.customerId, req.productId, env.gql)
        t1 == Append(t0, Call("verifyCustomerOwnsProduct", VerdictOut(ownership)))
    IN IF ownership.threw THEN Fail(500, "No access token available", t1)
       ELSE IF ~ownership.verified
       THEN Fail(403, "Ownership verification failed. You must purchase this product to post.", t1)
       ELSE IF Truthy(ownership.orderId) /\ env.fault = "order.findUnique"
       THEN Fail(500, "store error", Append(t1, Call("order.findUnique", "throws")))
       ELSE
       LET viaOrder == IF Truthy(ownership.orderId)
                       THEN CustomerOfOrder(ownership.orderId) ELSE NullRef
           t2 == IF Truthy(ownership.orderId)
                 THEN Append(t1, Call("order.findUnique", "")) ELSE t1
           dbCustomer == IF viaOrder # NullRef THEN viaOrder
                         ELSE FindByShopifyId(customers, req.customerId)
           t3 == IF viaOrder # NullRef THEN t2
                 ELSE Append(t2, Call("customer.findUnique", ""))
       IN IF viaOrder = NullRef /\ env.fault = "customer.findUnique"
          THEN Fail(500, "store error", Append(t2, Call("customer.findUnique", "throws")))
          ELSE UploadAndStore(req, env, dbCustomer, t3)

\* the orderId branch
UploadAndAssignOrder(req, env) ==
    LET hasProduct == verifyOrderContainsProduct(req.orderId, req.productId, env.rest)
        t1 == <<Call("verifyOrderContainsProduct", VerdictOut(hasProduct))>>
    IN IF hasProduct.threw
       THEN Fail(500, "No access token available. Please complete OAuth first.", t1)
       ELSE IF ~hasProduct.verified
       THEN Fail(403, "This order does not contain the specified product.", t1)
       ELSE IF env.fault = "order.findUnique"
       THEN Fail(500, "store error", Append(t1, Call("order.findUnique", "throws")))
       ELSE UploadAndStore(req, env, CustomerOfOrder(req.orderId),
                           Append(t1, Call("order.findUnique", "")))

UploadAndAssignOutcome_OrderFirst(req, env) ==
    IF ~Truthy(req.productId) THEN Fail(400, "No productId provided.", <<>>)
    ELSE IF Truthy(req.orderId) THEN UploadAndAssignOrder(req, env)
    ELSE IF Truthy(req.customerId) THEN UploadAndAssignCustomer(req, env)
    ELSE Fail(401, "Authentication required (customerId or orderId).", <<>>)

UploadAndAssignOutcome_Open(req, env) ==
    IF ~Truthy(req.productId) THEN Fail(400, "No productId provided.", <<>>)
    ELSE IF Truthy(req.customerId) THEN UploadAndAssignCustomer(req, env)
    ELSE IF Truthy(req.orderId) THEN UploadAndAssignOrder(req, env)
    ELSE UploadAndStore(req, env, NullRef, <<>>)

UploadAndAssignOutcome(req, env) ==
    IF ~Truthy(req.productId) THEN Fail(400, "No productId provided.", <<>>)
    ELSE IF Truthy(req.customerId) THEN UploadAndAssignCustomer(req, env)
    ELSE IF Truthy(req.orderId) THEN UploadAndAssignOrder(req, env)
    ELSE Fail(401, "Authentication required (customerId or orderId).", <<>>)

\* an answer the handler never asked for is not part of the step
EnvUsed(env, trace) ==
    /\ (env.gql # GqlUnused) <=>
          (Called(trace, "verifyCustomerOwnsProduct") /\ CurrentToken # NoToken)
    /\ (env.rest # RestUnused) <=>
          (Called(trace, "verifyOrderContainsProduct") /\ CurrentToken # NoToken)
    /\ (env.upload # "unused") <=> Called(trace, "uploadStream")
    /\ (env.product # "unused") <=>
          (Called(trace, "getProduct") /\ CurrentToken # NoToken)
    /\ env.fault = "none" \/ CalledWith(trace, env.fault, "throws")

\* the answers the environment gives to the calls the handler makes, found by
\* running the handler: first against failing answers, then call by call; fault
\* is the store call that throws, or "none"
Env(gql, rest, upload, product) ==
    [gql |-> gql, rest |-> rest, upload |-> upload, product |-> product,
     fault |-> "none"]
GqlThrow == [kind |-> "throw", orders |-> <<>>]
RestThrow == [kind |-> "throw", line_items |-> {}]
\* the platform is asked by a call that has a token to ask with
Asked(trace, name) == Called(trace, name) /\ CurrentToken # NoToken
GqlFor(trace) ==
    IF Asked(trace, "verifyCustomerOwnsProduct") THEN GqlAnswers ELSE {GqlUnused}
RestFor(trace) ==
    IF Asked(trace, "verifyOrderContainsProduct") THEN RestAnswers ELSE {RestUnused}
UploadFor(trace) ==
    IF Called(trace, "uploadStream") THEN UploadAnswers ELSE {"unused"}
ProductFor(trace) ==
    IF Called(trace, "getProduct") /\ CurrentToken # NoToken
    THEN ProductAnswers ELSE {"unused"}

UploadAndAssignApply(req, env, r) ==
    /\ Idle
    /\ Len(media) < MaxMedia
    /\ EnvUsed(env, r.trace)
    /\ products' = r.products
    /\ media' = r.media
    /\ resp' = [Respond("upload-and-assign", req, env, r.status, r.body, r.trace)
                EXCEPT !.sent = r.sent]
    /\ UNCHANGED <<admins, pending, accessToken, envToken, customerSecret, customers, orders,
                   items, likes>>

\* the handler run while the store fails the named call (or none)
UploadAndAssignUnder(req, fault) ==
    LET Under(gql, rest, upload, product) ==
            [Env(gql, rest, upload, product) EXCEPT !.fault = fault]
    IN
    /\ Idle
    /\ \E t0 \in {UploadAndAssignOutcome(req, Under(GqlThrow, RestThrow, "error", "throw")).trace} :
       \E gql \in GqlFor(t0), rest \in RestFor(t0) :
       \E t1 \in {UploadAndAssignOutcome(req, Under(gql, rest, "error", "throw")).trace} :
       \E upload \in UploadFor(t1) :
       \E t2 \in {UploadAndAssignOutcome(req, Under(gql, rest, upload, "throw")).trace} :
       \E product \in ProductFor(t2) :
       \E r \in {UploadAndAssignOutcome(req, Under(gql, rest, upload, product))} :
          UploadAndAssignApply(req, Under(gql, rest, upload, product), r)

UploadAndAssign(req) == UploadAndAssignUnder(req, "none")

\* the bodies a client may send
Signatures ==
    {NoSig, EmptySig, Hmac(ServerSecret, Num(1)), Hmac(OtherKey, Num(1))}
UploadRequests ==
    [productId : {Absent, Num(1), Gid("Product", 1)},
     customerId : {Absent, Num(1), Gid("Customer", 1)},
     signature : Signatures, orderId : {Absent, Num(1)}, file : BOOLEAN,
     filter : {"undefined", "retro"}]

(***************************************************************************)
(* POST /shopify/products/:productId/metafields/bulk.  The platform keeps   *)
(* the metafields; failAt is the post it rejects (0: none), and the posts   *)
(* it accepted are the `sent` of the response.                              *)
(***************************************************************************)
RECURSIVE setProductMetafields_KeepGoing(_, _, _)
setProductMetafields_KeepGoing(metafields, failAt, results) ==
    IF metafields = <<>> THEN [threw |-> FALSE, results |-> results, error |-> ""]
    ELSE IF CurrentToken = NoToken
    THEN [threw |-> TRUE, results |-> results,
          error |-> "No access token available. Please complete OAuth first."]
    ELSE IF Len(results) + 1 = failAt
    THEN [setProductMetafields_KeepGoing(Tail(metafields), 0, results)
            EXCEPT !.threw = TRUE, !.error = "platform error"]
    ELSE setProductMetafields_KeepGoing(Tail(metafields), failAt,
                                        Append(results, Head(metafields)))

\* the for loop over metafields: each item is awaited before the next; results
\* are the items posted so far, and an exception of setProductMetafield
\* (getRestClient without a token, or the platform's) leaves the loop
RECURSIVE setProductMetafields(_, _, _)
setProductMetafields(metafields, failAt, results) ==
    IF metafields = <<>> THEN [threw |-> FALSE, results |-> results, error |-> ""]
    ELSE IF CurrentToken = NoToken
    THEN [threw |-> TRUE, results |-> results,
          error |-> "No access token available. Please complete OAuth first."]
    ELSE IF Len(results) + 1 = failAt
    THEN [threw |-> TRUE, results |-> results, error |-> "platform error"]
    ELSE setProductMetafields(Tail(metafields), failAt, Append(results, Head(metafields)))

BulkMetafields(metafields, failAt) ==
    LET r == setProductMetafields(metafields, failAt, <<>>)
        posted == [i \in 1..Len(r.results) |-> Call("setProductMetafield", "ok")]
    IN /\ Idle
       /\ failAt <= Len(metafields)
       /\ CurrentToken = NoToken => failAt = 0
       /\ resp' = [Respond("metafields-bulk", [metafields |-> metafields],
                           [failAt |-> failAt], IF r.threw THEN 500 ELSE 200,
                           IF r.threw THEN [error |-> r.error]
                           ELSE [metafields |-> r.results],
                           IF r.threw
                           THEN Append(posted, Call("setProductMetafield", "throws"))
                           ELSE posted)
                   EXCEPT !.sent = r.results]
       /\ UNCHANGED <<admins, pending, accessToken, envToken, customerSecret, customers,
                      orders, items, products, media, likes>>

(***************************************************************************)
(* Read paths: verify-ownership, gallery, product media, order              *)
(***************************************************************************)
\* prisma.media.findMany({ where: { shopifyProductId, approved: true } }): row ids
ApprovedMedia_All(table, productId) ==
    {i \in DOMAIN table : table[i].shopifyProductId = productId}

ApprovedMedia(table, productId) ==
    {i \in DOMAIN table : table[i].shopifyProductId = productId /\ table[i].approved}

\* the checks both customer read paths start with; "pass" or the error answer
CustomerGate(req) ==
    IF ~Truthy(req.customerId) THEN [status |-> 400, trace |-> <<>>]
    ELSE IF SigTruthy(req.signature)
            /\ ~verifyShopifySignature(customerSecret, req.customerId, req.signature)
    THEN [status |-> 401, trace |-> <<Call("verifyShopifySignature", "false")>>]
    ELSE [status |-> 200,
          trace |-> IF SigTruthy(req.signature)
                    THEN <<Call("verifyShopifySignature", "true")>> ELSE <<>>]

ReadUnchanged ==
    UNCHANGED <<admins, pending, accessToken, envToken, customerSecret, customers, orders, items,
                products, media, likes>>

\* GET /shopify/verify-ownership/:productId
VerifyOwnershipOutcome(req, gql) ==
    LET gate == CustomerGate(req)
        result == verifyCustomerOwnsProduct(req.customerId, req.productId, gql)
        t1 == Append(gate.trace, Call("verifyCustomerOwnsProduct", VerdictOut(result)))
    IN IF gate.status # 200
       THEN [status |-> gate.status, body |-> [error |-> "rejected"], trace |-> gate.trace]
       ELSE IF result.threw
       THEN [status |-> 500, body |-> [error |-> "No access token available"], trace |-> t1]
       ELSE [status |-> 200,
             body |-> [verified |-> result.verified, orderId |-> result.orderId],
             trace |-> t1]

VerifyOwnership(req) ==
    /\ Idle
    /\ \E t0 \in {VerifyOwnershipOutcome(req, GqlThrow).trace} :
       \E gql \in GqlFor(t0) :
       \E r \in {VerifyOwnershipOutcome(req, gql)} :
          resp' = Respond("verify-ownership", req, Env(gql, RestUnused, "unused", "unused"),
                          r.status, r.body, r.trace)
    /\ ReadUnchanged

\* GET /shopify/products/:productId/gallery
GalleryOutcome(req, gql) ==
    LET gate == CustomerGate(req)
        ownership == verifyCustomerOwnsProduct(req.customerId, req.productId, gql)
        t1 == Append(gate.trace, Call("verifyCustomerOwnsProduct", VerdictOut(ownership)))
    IN IF gate.status # 200
       THEN [status |-> gate.status, body |-> [error |-> "rejected"], trace |-> gate.trace]
       ELSE IF ownership.threw
       THEN [status |-> 500, body |-> [error |-> "No access token available"], trace |-> t1]
       ELSE IF ~ownership.verified
       THEN [status |-> 403, body |-> [error |-> "Access denied."], trace |-> t1]
       ELSE [status |-> 200,
             body |-> [authorized |-> TRUE, media |-> ApprovedMedia(media, req.productId)],
             trace |-> Append(t1, Call("media.findMany", ""))]

Gallery(req) ==
    /\ Idle
    /\ \E t0 \in {GalleryOutcome(req, GqlThrow).trace} :
       \E gql \in GqlFor(t0) :
       \E r \in {GalleryOutcome(req, gql)} :
          resp' = Respond("gallery", req, Env(gql, RestUnused, "unused", "unused"),
                          r.status, r.body, r.trace)
    /\ ReadUnchanged

\* prisma.like.count({ where: { mediaId } }): the Like rows of a media
LikeCount(rows, mediaId) ==
    BagCardinality([l \in {k \in BagToSet(rows) : k[2] = mediaId} |-> rows[l]])

\* GET /shopify/products/:productId/media: the approved rows of the product with
\* their like counts, and whether the asking customer likes each
ProductMedia(req) ==
    LET dbCustomerId == IF Truthy(req.customerId)
                        THEN FindByShopifyId(customers, req.customerId) ELSE NullRef
        rows == ApprovedMedia(media, req.productId)
    IN /\ Idle
       /\ resp' = Respond("product-media", req, Absent, 200,
                          [media |-> rows,
                           likeCount |-> [i \in rows |-> LikeCount(likes, i)],
                           likedByUser |-> [i \in rows |->
                                              dbCustomerId # NullRef
                                              /\ BagIn(<<dbCustomerId, i>>, likes)]],
                          <<Call("media.findMany", "")>>)
       /\ ReadUnchanged

\* GET /order/:id: per item, the product fetch and then the approved media; the
\* catch around both answers the item with no media
ItemMedia(item, answer) ==
    IF getProduct(answer) = "throw" THEN {}
    ELSE ApprovedMedia(media, item.shopifyProductId)

OrderItems(order) == {i \in DOMAIN items : items[i].orderId = order}

GetOrder(id, answers) ==
    LET order == FindByShopifyId(orders, id)
    IN /\ Idle
       /\ IF order = NullRef
          THEN /\ answers = <<>>
               /\ resp' = Respond("order", id, Absent, 404, [error |-> "Order not found"], <<>>)
          ELSE /\ DOMAIN answers = OrderItems(order)
               /\ resp' = Respond("order", id, answers, 200,
                                  [order |-> order,
                                   user_media_urls |->
                                       [i \in OrderItems(order) |->
                                           ItemMedia(items[i], answers[i])]],
                                  <<Call("order.findUnique", "")>>)
       /\ ReadUnchanged

(***************************************************************************)
(* routes/admin.js: the session cookie and POST /admin/toggle-approval/:id  *)
(***************************************************************************)
JWT_SECRET == "jwt-secret"
NoCookie == [present |-> FALSE, id |-> 0, key |-> "", expired |-> FALSE]
Jwt(id, key, expired) == [present |-> TRUE, id |-> id, key |-> key, expired |-> expired]

\* jwt.verify(token, JWT_SECRET): the signature and the expiry
JwtVerify(token) == token.key = JWT_SECRET /\ ~token.expired

requireAuth_AnyToken(cookie) ==
    IF ~cookie.present THEN [next |-> FALSE, clearCookie |-> FALSE]
    ELSE [next |-> TRUE, clearCookie |-> FALSE]

\* requireAuth: "next", or the redirect to the login page
requireAuth(cookie) ==
    IF ~cookie.present THEN [next |-> FALSE, clearCookie |-> FALSE]
    ELSE IF JwtVerify(cookie) THEN [next |-> TRUE, clearCookie |-> FALSE]
    ELSE [next |-> FALSE, clearCookie |-> TRUE]

\* the handler proper on a Media table: findUnique, then update with the negation
ToggleApprovalOn_All(table, id) ==
    IF id \notin DOMAIN table
    THEN [status |-> 404, approved |-> FALSE, media |-> table]
    ELSE [status |-> 200, approved |-> ~table[id].approved,
          media |-> [i \in DOMAIN table |->
                        [table[i] EXCEPT !.approved = ~table[i].approved]]]

ToggleApprovalOn_Approve(table, id) ==
    IF id \notin DOMAIN table
    THEN [status |-> 404, approved |-> FALSE, media |-> table]
    ELSE [status |-> 200, approved |-> TRUE,
          media |-> [table EXCEPT ![id].approved = TRUE]]

ToggleApprovalOn(table, id) ==
    IF id \notin DOMAIN table
    THEN [status |-> 404, approved |-> FALSE, media |-> table]
    ELSE [status |-> 200, approved |-> ~table[id].approved,
          media |-> [table EXCEPT ![id].approved = ~table[id].approved]]

ToggleApproval(id, cookie) ==
    LET auth == requireAuth(cookie)
        r == ToggleApprovalOn(media, id)
    IN /\ Idle
       /\ IF ~auth.next
          THEN /\ resp' = Respond("toggle-approval", [id |-> id, cookie |-> cookie], Absent,
                                  302, [clearCookie |-> auth.clearCookie], <<>>)
               /\ UNCHANGED media
          ELSE /\ media' = r.media
               /\ resp' = Respond("toggle-approval", [id |-> id, cookie |-> cookie], Absent,
                                  r.status, [approved |-> r.approved],
                                  IF r.status = 200
                                  THEN <<Call("media.findUnique", "found"),
                                         Call("media.update", "ok")>>
                                  ELSE <<Call("media.findUnique", "null")>>)
       /\ UNCHANGED <<admins, pending, accessToken, envToken, customerSecret, customers, orders, items,
                      products, likes>>

\* the tables no admin route but toggle-approval writes
AdminUnchanged ==
    UNCHANGED <<accessToken, envToken, customerSecret, customers, orders, items,
                products, likes, pending>>

(***************************************************************************)
(* GET /admin: the moderation listing.  A row's creation time is its local *)
(* id; a date of the query is a local id, NoDate when the query has none.  *)
(***************************************************************************)
NoDate == 0

\* the where object: status, then the createdAt range
ListingWhere(table, query, i) ==
    /\ query.status = "approved" => table[i].approved
    /\ query.status = "pending" => ~table[i].approved
    /\ query.startDate # NoDate => i >= query.startDate
    /\ query.endDate # NoDate => i <= query.endDate

\* orderBy createdAt desc
RECURSIVE NewestFirst(_)
NewestFirst(ids) ==
    IF ids = {} THEN <<>>
    ELSE LET newest == CHOOSE i \in ids : \A j \in ids : j <= i
         IN <<newest>> \o NewestFirst(ids \ {newest})

\* findMany({ where, orderBy: [{ approved: 'asc' }, { createdAt: 'desc' }] })
ListingRows(table, query) ==
    LET match == {i \in DOMAIN table : ListingWhere(table, query, i)}
    IN NewestFirst({i \in match : ~table[i].approved})
       \o NewestFirst({i \in match : table[i].approved})

Listing(query, cookie) ==
    LET auth == requireAuth(cookie)
        req == [query |-> query, cookie |-> cookie]
    IN /\ Idle
       /\ resp' = IF ~auth.next
                  THEN Respond("listing", req, Absent, 302,
                               [clearCookie |-> auth.clearCookie], <<>>)
                  ELSE Respond("listing", req, Absent, 200,
                               [media |-> ListingRows(media, query)],
                               <<Call("media.findMany", "")>>)
       /\ UNCHANGED <<media, admins>>
       /\ AdminUnchanged

(***************************************************************************)
(* GET /admin/setup-admin and POST /admin/login.  A response body that is  *)
(* text is the set of the strings it is made of.                           *)
(***************************************************************************)
AdminEmail == "admin@hoop.com"
AdminPassword == "admin"
\* bcrypt.hash(password, 10): one way, and bcrypt.compare against it
BcryptHash(password) == [alg |-> "bcrypt", of |-> password]
BcryptCompare(password, hash) == hash = BcryptHash(password)

FindAdmin(email) ==
    IF \E i \in DOMAIN admins : admins[i].email = email
    THEN CHOOSE i \in DOMAIN admins : admins[i].email = email
    ELSE NullRef

SetupAdmin ==
    /\ Idle
    /\ IF Len(admins) > 0
       THEN /\ resp' = Respond("setup-admin", Absent, Absent, 403,
                               [text |-> {"Admin user already exists. Cannot setup."}],
                               <<Call("adminUser.count", "")>>)
            /\ UNCHANGED admins
       ELSE /\ admins' = Append(admins, [email |-> AdminEmail,
                                         password |-> BcryptHash(AdminPassword)])
            /\ resp' = Respond("setup-admin", Absent, Absent, 200,
                               [text |-> {"Admin user created.", AdminEmail, AdminPassword}],
                               <<Call("adminUser.count", ""), Call("adminUser.create", "")>>)
    /\ UNCHANGED media
    /\ AdminUnchanged

\* a logout that also dropped the admin rows
Logout_Forget(cookie) ==
    /\ Idle
    /\ resp' = Respond("logout", [cookie |-> cookie], Absent, 302,
                       [clearCookie |-> TRUE], <<>>)
    /\ admins' = <<>>
    /\ UNCHANGED media
    /\ AdminUnchanged

\* GET /admin/logout: clearCookie and the redirect to the login page; the handler
\* reads neither the cookie nor the store
Logout(cookie) ==
    /\ Idle
    /\ resp' = Respond("logout", [cookie |-> cookie], Absent, 302,
                       [clearCookie |-> TRUE], <<>>)
    /\ UNCHANGED <<media, admins>>
    /\ AdminUnchanged

Login(email, password) ==
    LET admin == FindAdmin(email)
        req == [email |-> email, password |-> password]
    IN /\ Idle
       /\ resp' = IF admin = NullRef
                  THEN Respond("login", req, Absent, 401, [text |-> {"Invalid credentials"}],
                               <<Call("adminUser.findUnique", "null")>>)
                  ELSE IF ~BcryptCompare(password, admins[admin].password)
                  THEN Respond("login", req, Absent, 401, [text |-> {"Invalid credentials"}],
                               <<Call("adminUser.findUnique", "found")>>)
                  ELSE Respond("login", req, Absent, 200,
                               [text |-> {"success"},
                                cookie |-> Jwt(admin, JWT_SECRET, FALSE)],
                               <<Call("adminUser.findUnique", "found")>>)
       /\ UNCHANGED <<media, admins>>
       /\ AdminUnchanged

(***************************************************************************)
(* POST /shopify/media/:id/like                                            *)
(***************************************************************************)
\* the handler proper for a customer row: findUnique on the pair, delete or
\* create, then count.  Like.mediaId references Media: a create for a media id
\* with no row throws.
OneLike(dbCustomer, mediaId) == SetToBag({<<dbCustomer, mediaId>>})

LikeOn_AlwaysCreate(rows, table, dbCustomer, mediaId) ==
    IF mediaId \notin DOMAIN table
    THEN [status |-> 500, liked |-> FALSE, likeCount |-> 0, likes |-> rows]
    ELSE [status |-> 200, liked |-> TRUE,
          likeCount |-> LikeCount(rows, mediaId) + 1,
          likes |-> rows (+) OneLike(dbCustomer, mediaId)]

LikeOn(rows, table, dbCustomer, mediaId) ==
    IF BagIn(<<dbCustomer, mediaId>>, rows)
    THEN [status |-> 200, liked |-> FALSE,
          likeCount |-> LikeCount(rows (-) OneLike(dbCustomer, mediaId), mediaId),
          likes |-> rows (-) OneLike(dbCustomer, mediaId)]
    ELSE IF mediaId \notin DOMAIN table
    THEN [status |-> 500, liked |-> FALSE, likeCount |-> 0, likes |-> rows]
    ELSE [status |-> 200, liked |-> TRUE,
          likeCount |-> LikeCount(rows (+) OneLike(dbCustomer, mediaId), mediaId),
          likes |-> rows (+) OneLike(dbCustomer, mediaId)]

Like(req) ==
    LET dbCustomer == FindByShopifyId(customers, req.customerId)
        r == LikeOn(likes, media, dbCustomer, req.id)
    IN /\ Idle
       /\ IF ~Truthy(req.customerId)
          THEN /\ resp' = Respond("like", req, Absent, 400,
                                  [error |-> "customerId is required"], <<>>)
               /\ UNCHANGED likes
          ELSE IF dbCustomer = NullRef
          THEN /\ resp' = Respond("like", req, Absent, 404,
                                  [error |-> "Customer not found in DB. Make a purchase first."],
                                  <<Call("customer.findUnique", "null")>>)
               /\ UNCHANGED likes
          ELSE /\ likes' = r.likes
               /\ resp' = Respond("like", req, Absent, r.status,
                                  [liked |-> r.liked, likeCount |-> r.likeCount],
                                  <<Call("customer.findUnique", "found"),
                                    Call("like.findUnique", "")>>)
       /\ UNCHANGED <<admins, pending, accessToken, envToken, customerSecret, customers, orders, items,
                      products, media>>

(***************************************************************************)
(* Requests that overlap.  A handler gives way at each await, and another   *)
(* request may run there: the two handlers that read a row and then write   *)
(* on what they read are taken one store call at a time, each request in a  *)
(* slot of pending.                                                         *)
(***************************************************************************)
InFlight(op, pc, req, local) ==
    [op |-> op, pc |-> pc, req |-> req, local |-> local, status |-> 0, body |-> Absent]
Done(op, req, local, status, body) ==
    [op |-> op, pc |-> "done", req |-> req, local |-> local, status |-> status,
     body |-> body]
Step(s, slot) == pending' = [pending EXCEPT ![s] = slot]

\* the answer is sent and the request is over
Finish(s) ==
    /\ pending[s].pc = "done"
    /\ Step(s, FreeSlot)
    /\ UNCHANGED <<accessToken, envToken, customerSecret, customers, orders, items,
                   products, media, likes, admins, resp>>

\* toggle-approval up to its first await: requireAuth, then media.findUnique
ToggleApprovalFind(s, id, cookie) ==
    LET req == [id |-> id, cookie |-> cookie]
        auth == requireAuth(cookie)
    \* the request is taken into the first slot that is free
    IN /\ pending[s] = FreeSlot /\ \A t \in 1..(s - 1) : pending[t] # FreeSlot
       /\ Step(s, IF ~auth.next
                  THEN Done("toggle-approval", req, Absent, 302,
                            [clearCookie |-> auth.clearCookie])
                  ELSE IF id \notin DOMAIN media
                  THEN Done("toggle-approval", req, Absent, 404,
                            [error |-> "Media not found"])
                  ELSE InFlight("toggle-approval", "update", req,
                                [approved |-> media[id].approved]))
       /\ UNCHANGED <<accessToken, envToken, customerSecret, customers, orders, items,
                      products, media, likes, admins, resp>>

ToggleApprovalUpdate_Reread(s) ==
    LET slot == pending[s]
        id == slot.req.id
    IN /\ slot.op = "toggle-approval" /\ slot.pc = "update"
       /\ media' = [media EXCEPT ![id].approved = ~media[id].approved]
       /\ Step(s, Done("toggle-approval", slot.req, slot.local, 200,
                       [approved |-> media'[id].approved]))
       /\ UNCHANGED <<accessToken, envToken, customerSecret, customers, orders, items,
                      products, likes, admins, resp>>

\* media.update with data: { approved: !media.approved }, media being the row as
\* it was read, and the answer with updated.approved
ToggleApprovalUpdate(s) ==
    LET slot == pending[s]
        id == slot.req.id
    IN /\ slot.op = "toggle-approval" /\ slot.pc = "update"
       /\ media' = [media EXCEPT ![id].approved = ~slot.local.approved]
       /\ Step(s, Done("toggle-approval", slot.req, slot.local, 200,
                       [approved |-> media'[id].approved]))
       /\ UNCHANGED <<accessToken, envToken, customerSecret, customers, orders, items,
                      products, likes, admins, resp>>

LikeCreateThrows_Never(rows, dbCustomer, mediaId) == FALSE

\* Like has a unique pair (customerId, mediaId), the key of the handler's
\* findUnique: a create of a pair that has a row throws
LikeCreateThrows(rows, dbCustomer, mediaId) == BagIn(<<dbCustomer, mediaId>>, rows)

\* like up to its first await: the customerId check, then customer.findUnique
LikeFindCustomer(s, req) ==
    LET dbCustomer == FindByShopifyId(customers, req.customerId)
    \* the request is taken into the first slot that is free
    IN /\ pending[s] = FreeSlot /\ \A t \in 1..(s - 1) : pending[t] # FreeSlot
       /\ Step(s, IF ~Truthy(req.customerId)
                  THEN Done("like", req, Absent, 400, [error |-> "customerId is required"])
                  ELSE IF dbCustomer = NullRef
                  THEN Done("like", req, Absent, 404,
                            [error |-> "Customer not found in DB. Make a purchase first."])
                  ELSE InFlight("like", "findLike", req,
                                [dbCustomer |-> dbCustomer, existingLike |-> "unread",
                                 liked |-> FALSE]))
       /\ UNCHANGED <<accessToken, envToken, customerSecret, customers, orders, items,
                      products, media, likes, admins, resp>>

\* like.findUnique on the pair: existingLike is the row found, or null
LikeFindExisting(s) ==
    LET slot == pending[s]
    IN /\ slot.op = "like" /\ slot.pc = "findLike"
       /\ Step(s, InFlight("like", "write", slot.req,
                           [slot.local EXCEPT
                               !.existingLike =
                                   IF BagIn(<<slot.local.dbCustomer, slot.req.id>>, likes)
                                   THEN "row" ELSE "null"]))
       /\ UNCHANGED <<accessToken, envToken, customerSecret, customers, orders, items,
                      products, media, likes, admins, resp>>

\* like.delete({ where: { id: existingLike.id } }) or like.create.  The delete
\* is of the row that was found: once another request deleted that row the
\* delete throws, even if the pair has been given a new row since.
LikeWrite(s) ==
    LET slot == pending[s]
        dbCustomer == slot.local.dbCustomer
        mediaId == slot.req.id
        Thrown(message) == Done("like", slot.req, slot.local, 500, [error |-> message])
        \* another request that holds the row of the pair in existingLike
        HoldsLike(other) ==
            /\ other.op = "like" /\ other.pc = "write" /\ other.local.existingLike = "row"
            /\ other.local.dbCustomer = dbCustomer /\ other.req.id = mediaId
    IN /\ slot.op = "like" /\ slot.pc = "write"
       /\ IF slot.local.existingLike = "row"
          THEN /\ likes' = likes (-) OneLike(dbCustomer, mediaId)
               /\ pending' =
                     [t \in Slots |->
                         IF t = s THEN InFlight("like", "count", slot.req, slot.local)
                         ELSE IF HoldsLike(pending[t])
                         THEN [pending[t] EXCEPT !.local.existingLike = "deleted"]
                         ELSE pending[t]]
          ELSE IF slot.local.existingLike = "deleted"
          THEN /\ Step(s, Thrown("Record to delete does not exist."))
               /\ UNCHANGED likes
          ELSE IF mediaId \notin DOMAIN media
          THEN /\ Step(s, Thrown("Foreign key constraint failed"))
               /\ UNCHANGED likes
          ELSE IF LikeCreateThrows(likes, dbCustomer, mediaId)
          THEN /\ Step(s, Thrown("Unique constraint failed"))
               /\ UNCHANGED likes
          ELSE /\ likes' = likes (+) OneLike(dbCustomer, mediaId)
               /\ Step(s, InFlight("like", "count", slot.req,
                                   [slot.local EXCEPT !.liked = TRUE]))
       /\ UNCHANGED <<accessToken, envToken, customerSecret, customers, orders, items,
                      products, media, admins, resp>>

\* like.count of the media, and the answer
LikeCountRows(s) ==
    LET slot == pending[s]
    IN /\ slot.op = "like" /\ slot.pc = "count"
       /\ Step(s, Done("like", slot.req, slot.local, 200,
                       [liked |-> slot.local.liked,
                        likeCount |-> LikeCount(likes, slot.req.id)]))
       /\ UNCHANGED <<accessToken, envToken, customerSecret, customers, orders, items,
                      products, media, likes, admins, resp>>

(***************************************************************************)
(* First-time writes by overlapping requests: the OAuth callback, the      *)
(* setup of the admin, and the Product row of a submission                 *)
(***************************************************************************)
\* a request is taken into the first free slot, next to requests of its route only
Takes(s, op) ==
    /\ pending[s] = FreeSlot /\ \A t \in 1..(s - 1) : pending[t] # FreeSlot
    /\ \A t \in Slots : pending[t] = FreeSlot \/ pending[t].op = op

\* GET /shopify/callback up to its await: the exchange with the platform is out
CallbackBegin(s) ==
    /\ Takes(s, "callback")
    /\ Step(s, InFlight("callback", "auth", Absent, Absent))
    /\ UNCHANGED <<accessToken, envToken, customerSecret, customers, orders, items,
                   products, media, likes, admins, resp>>

\* shopify.auth.callback settles: the session's token is stored and the page is
\* sent, or the catch answers 500
CallbackEnd(s, ok, token) ==
    /\ pending[s].op = "callback" /\ pending[s].pc = "auth"
    /\ IF ok THEN setAccessToken(token) ELSE UNCHANGED accessToken
    /\ Step(s, IF ok THEN Done("callback", Absent, Absent, 200, [token |-> token])
               ELSE Done("callback", Absent, Absent, 500, [error |-> "OAuth error"]))
    /\ UNCHANGED <<envToken, customerSecret, customers, orders, items, products, media,
                   likes, admins, resp>>

AdminCreateThrows_Never(rows, email) == FALSE

\* AdminUser has a unique email, the key of the login's findUnique: a create of
\* an email that has a row throws
AdminCreateThrows(rows, email) == \E i \in DOMAIN rows : rows[i].email = email

\* setup-admin up to its awaits: adminUser.count, the 403 when a row exists, and
\* the hash of the default password
SetupAdminCount(s) ==
    /\ Takes(s, "setup-admin")
    /\ Step(s, IF Len(admins) > 0
               THEN Done("setup-admin", Absent, Absent, 403,
                         [text |-> {"Admin user already exists. Cannot setup."}])
               ELSE InFlight("setup-admin", "create", Absent,
                             [hashedPassword |-> BcryptHash(AdminPassword)]))
    /\ UNCHANGED <<accessToken, envToken, customerSecret, customers, orders, items,
                   products, media, likes, admins, resp>>

\* adminUser.create with the default email, and the answer; the catch answers 500
SetupAdminCreate(s) ==
    LET slot == pending[s]
    IN /\ slot.op = "setup-admin" /\ slot.pc = "create"
       /\ IF AdminCreateThrows(admins, AdminEmail)
          THEN /\ Step(s, Done("setup-admin", Absent, slot.local, 500,
                               [text |-> {"Error creating admin: ",
                                          "Unique constraint failed"}]))
               /\ UNCHANGED admins
          ELSE /\ admins' = Append(admins, [email |-> AdminEmail,
                                            password |-> slot.local.hashedPassword])
               /\ Step(s, Done("setup-admin", Absent, slot.local, 200,
                               [text |-> {"Admin user created.", AdminEmail,
                                          AdminPassword}]))
       /\ UNCHANGED <<accessToken, envToken, customerSecret, customers, orders, items,
                      products, media, likes, resp>>

ProductCreateThrows_Never(rows, sid) == FALSE

\* Product has a unique platform id, the key of the handler's findUnique: a
\* create of an id that has a row throws
ProductCreateThrows(rows, sid) == \E i \in DOMAIN rows : rows[i].shopifyId = sid

\* upload-and-assign up to product.findUnique: the checks, the ownership
\* verification, the customer's row and the upload as in the handler run at
\* once, then the lookup of the Product row
SubmitFind(s, req, gql) ==
    LET r == UploadAndAssignOutcome(req, Env(gql, RestUnused, "image", "throw"))
        found == FindByShopifyId(products, req.productId)
        submitting == {t \in Slots : /\ pending[t].op = "upload-and-assign"
                                     /\ pending[t].pc # "done"}
    IN /\ Takes(s, "upload-and-assign")
       /\ Len(media) + Cardinality(submitting) < MaxMedia
       /\ Step(s, IF r.status # 200
                  THEN Done("upload-and-assign", req, Absent, r.status, r.body)
                  ELSE InFlight("upload-and-assign",
                                IF found = NullRef THEN "create" ELSE "store", req,
                                [dbCustomer |-> r.media[Len(r.media)].customerId,
                                 dbProduct |-> found]))
       /\ UNCHANGED <<accessToken, envToken, customerSecret, customers, orders, items,
                      products, media, likes, admins, resp>>

\* if (!dbProduct): getProduct, and product.create when it answers a product;
\* the inner catch leaves dbProduct null
SubmitCreate(s, answer) ==
    LET slot == pending[s]
        creates == /\ getProduct(answer) = "product"
                   /\ ~ProductCreateThrows(products, slot.req.productId)
    IN /\ slot.op = "upload-and-assign" /\ slot.pc = "create"
       /\ products' = IF creates
                      THEN Append(products, [shopifyId |-> slot.req.productId,
                                             name |-> "title"])
                      ELSE products
       /\ Step(s, InFlight("upload-and-assign", "store", slot.req,
                           [slot.local EXCEPT
                               !.dbProduct = IF creates THEN Len(products') ELSE NullRef]))
       /\ UNCHANGED <<accessToken, envToken, customerSecret, customers, orders, items,
                      media, likes, admins, resp>>

\* media.create and the answer
SubmitStore(s) ==
    LET slot == pending[s]
    IN /\ slot.op = "upload-and-assign" /\ slot.pc = "store"
       /\ media' = Append(media, MediaRow(MediaData(slot.req, "image",
                                                    slot.local.dbProduct,
                                                    slot.local.dbCustomer)))
       /\ Step(s, Done("upload-and-assign", slot.req, slot.local, 200,
                       [success |-> TRUE, media |-> Len(media')]))
       /\ UNCHANGED <<accessToken, envToken, customerSecret, customers, orders, items,
                      products, likes, admins, resp>>

\* GET /shopify/status: authenticated: !!getAccessToken()
Status ==
    /\ Idle
    /\ resp' = Respond("status", Absent, Absent, 200,
                       [authenticated |-> accessToken \notin {NoToken, ""}], <<>>)
    /\ ReadUnchanged

(***************************************************************************)
(* The webhook under every payload                                         *)
(***************************************************************************)
WebhookStep ==
    \E p \in WebhookPayloadsWide \cup WebhookPayloadsBroken : Webhook(p, NoFault)

NextWebhook == WebhookStep \/ Deliver

InitWebhook == Init /\ envToken = NoToken /\ customerSecret = NoSecret

SpecWebhook == InitWebhook /\ [][NextWebhook]_vars

(***************************************************************************)
(* Webhooks of several customers, under changing names and currencies      *)
(***************************************************************************)
NextCustomers ==
    \/ \E p \in {q \in WebhookPayloadsPlain : q.setCurrency = ""} : Webhook(p, NoFault)
    \/ Deliver

SpecCustomers == InitWebhook /\ [][NextCustomers]_vars

(***************************************************************************)
(* Webhooks under a store that may fail any one call of a request          *)
(***************************************************************************)
\* payloads whose line items are of the first product and carry their quantity
FaultPayloads ==
    {p \in WebhookPayloadsWide :
        \A k \in DOMAIN p.line_items :
            /\ p.line_items[k].product_id = 1
            /\ p.line_items[k].quantity \in {1, MaxQty}
            /\ p.line_items[k].current_quantity = NoQty}

\* a request of FaultPayloads makes at most 2 + 2 * MaxQty store calls
NextWebhookFaults ==
    \/ \E p \in FaultPayloads : \E fault \in NoFault..(2 + 2 * MaxQty) : Webhook(p, fault)
    \/ Deliver

SpecWebhookFaults == InitWebhook /\ [][NextWebhookFaults]_vars

(***************************************************************************)
(* The submission workflow under every request body                        *)
(***************************************************************************)
WebhookPlainStep == Webhook(CHOOSE p \in WebhookPayloadsPlain :
                               p.id = 1 /\ p.customerId = 1 /\ p.firstName = "Ana"
                               /\ p.currency = "" /\ p.setCurrency = "",
                           NoFault)

\* the queries of the customer read paths
ReadRequests ==
    [productId : {Num(1), Gid("Product", 1)},
     customerId : {Absent, Num(1), Gid("Customer", 1)}, signature : Signatures]

InitSubmit == Init /\ envToken = NoToken

NextSubmit ==
    \/ \E ok \in BOOLEAN : Callback(ok, "shpat_A")
    \/ WebhookPlainStep
    \/ \E req \in UploadRequests : UploadAndAssign(req)
    \/ \E req \in ReadRequests : VerifyOwnership(req)
    \/ \E req \in ReadRequests : Gallery(req)
    \/ Deliver

SpecSubmit == InitSubmit /\ [][NextSubmit]_vars

(***************************************************************************)
(* Moderation and the read paths: owners submit, the admin toggles,        *)
(* customers read and like                                                 *)
(***************************************************************************)
OwnerUploads ==
    [productId : {Num(1), Num(MaxId)}, customerId : {Num(1)}, signature : {NoSig},
     orderId : {Absent}, file : {TRUE}, filter : {"sepia"}]
OwnerReads ==
    [productId : {Num(1), Num(MaxId)}, customerId : {Num(1)}, signature : {NoSig}]
Cookies == {NoCookie, Jwt(1, JWT_SECRET, FALSE), Jwt(1, JWT_SECRET, TRUE), Jwt(1, "forged", FALSE)}
LikeRequests == [id : 1..MaxMedia, customerId : {Absent, Num(1), Num(MaxId)}]

\* each customer pays an order of their own
WebhookOwnersStep ==
    \E p \in {q \in WebhookPayloadsPlain :
                 /\ q.id = q.customerId /\ q.id \in {1, MaxId} /\ q.firstName = "Ana"
                 /\ q.currency = "" /\ q.setCurrency = ""} : Webhook(p, NoFault)
\* the owners submit pictures
OwnerUploadStep ==
    \E req \in OwnerUploads : UploadAndAssign(req) /\ resp'.env.upload # "video"
ProductMediaStep ==
    \E req \in [productId : {Num(1), Num(MaxId)}, customerId : {Absent, Num(1)}] :
        ProductMedia(req)

InitModerate == Init /\ envToken # NoToken /\ customerSecret = NoSecret

NextModerate ==
    \/ WebhookPlainStep
    \/ OwnerUploadStep
    \/ \E req \in OwnerReads : Gallery(req)
    \/ ProductMediaStep
    \/ \E id \in {Num(1), Num(MaxId)} :
        \E answers \in UNION {[S -> {"product", "throw"}] : S \in SUBSET (DOMAIN items)} :
           GetOrder(id, answers)
    \/ \E id \in 1..MaxMedia, cookie \in Cookies : ToggleApproval(id, cookie)
    \/ \E req \in [id : {1}, customerId : {Absent, Num(1)}] : Like(req)
    \* the queries of the listing: a status, and a range that starts or ends at a row
    \/ \E query \in [status : {"all", "approved", "pending"}, startDate : {NoDate, MaxMedia},
                      endDate : {NoDate, 1}], cookie \in Cookies : Listing(query, cookie)
    \/ SetupAdmin
    \/ \E email \in {AdminEmail, "eve@x.mx"}, password \in {AdminPassword, "guess"} :
           Login(email, password)
    \/ \E cookie \in Cookies : Logout(cookie)
    \/ Deliver

SpecModerate == InitModerate /\ [][NextModerate]_vars

(***************************************************************************)
(* Likes: two customers pay, pictures are submitted, both like and unlike  *)
(***************************************************************************)
NextLike ==
    \/ WebhookOwnersStep
    \/ OwnerUploadStep
    \/ \E req \in LikeRequests : Like(req)
    \/ ProductMediaStep
    \/ Deliver

SpecLike == InitModerate /\ [][NextLike]_vars

(***************************************************************************)
(* Overlapping toggles of the admin                                        *)
(***************************************************************************)
\* no request is in progress
Quiet == \A s \in Slots : pending[s] = FreeSlot
\* the store is filled while no request is in progress: the customers pay, and
\* the first of them submits pictures of the first product that are saved
QuietWebhookStep == Quiet /\ WebhookOwnersStep
QuietUploadStep ==
    Quiet /\ OwnerUploadStep /\ resp'.status = 200 /\ resp'.req.productId = Num(1)

NextToggleRace ==
    \/ QuietWebhookStep
    \/ QuietUploadStep
    \/ Deliver
    \* the admin's requests arrive once the store's answers are out
    \/ /\ Idle
       /\ \E s \in Slots, id \in {1, MaxMedia}, cookie \in Cookies :
             ToggleApprovalFind(s, id, cookie)
    \/ \E s \in Slots : ToggleApprovalUpdate(s)
    \/ \E s \in Slots : Finish(s)

SpecToggleRace == InitModerate /\ [][NextToggleRace]_vars

(***************************************************************************)
(* Overlapping likes of two customers                                      *)
(***************************************************************************)
NextLikeRace ==
    \/ QuietWebhookStep
    \/ QuietUploadStep
    \/ Deliver
    \* both customers like and unlike the first picture
    \/ /\ Idle
       /\ \E s \in Slots, req \in [id : {1}, customerId : {Absent, Num(1), Num(MaxId)}] :
             LikeFindCustomer(s, req)
    \/ \E s \in Slots : LikeFindExisting(s)
    \/ \E s \in Slots : LikeWrite(s)
    \/ \E s \in Slots : LikeCountRows(s)
    \/ \E s \in Slots : Finish(s)

SpecLikeRace == InitModerate /\ [][NextLikeRace]_vars

(***************************************************************************)
(* Filters: an owner submits pictures under every kind of filter value     *)
(***************************************************************************)
\* absent, empty, "none", the three known filters and an unknown one
Filters == {"undefined", "", "none", "sepia", "bw", "retro", "vintage"}

NextFilter ==
    \/ WebhookPlainStep
    \/ \E req \in [productId : {Num(1)}, customerId : {Num(1)}, signature : {NoSig},
                    orderId : {Absent}, file : {TRUE}, filter : Filters] :
          UploadAndAssign(req)
    \/ Deliver

SpecFilter == InitModerate /\ [][NextFilter]_vars

(***************************************************************************)
(* Overlapping first-time requests                                         *)
(***************************************************************************)
NextOverlap ==
    \/ \E s \in Slots : CallbackBegin(s)
    \/ \E s \in Slots, ok \in BOOLEAN, token \in {"shpat_A", "shpat_B"} :
          CallbackEnd(s, ok, token)
    \/ Status
    \/ \E s \in Slots : SetupAdminCount(s)
    \/ \E s \in Slots : SetupAdminCreate(s)
    \* a buyer of both products submits pictures of them
    \/ \E s \in Slots,
          req \in [productId : {Num(1), Num(MaxId)}, customerId : {Num(1)},
                   signature : {NoSig}, orderId : {Absent}, file : {TRUE},
                   filter : {"undefined"}],
          gql \in {[kind |-> "orders", orders |-> <<PlatformOrder(1, {1, MaxId})>>]} :
          SubmitFind(s, req, gql)
    \/ \E s \in Slots, answer \in ProductAnswers : SubmitCreate(s, answer)
    \/ \E s \in Slots : SubmitStore(s)
    \/ Deliver
    \/ \E s \in Slots : Finish(s)

SpecOverlap == Init /\ [][NextOverlap]_vars

(***************************************************************************)
(* Store faults in a submission: a buyer pays, and pictures are submitted  *)
(* by customer id or by order id while the store fails one call, or none   *)
(***************************************************************************)
NextUploadFaults ==
    \/ WebhookPlainStep
    \/ \E req \in [productId : {Num(1), Num(MaxId)}, customerId : {Absent, Num(1)},
                    signature : {NoSig}, orderId : {Absent, Num(1)}, file : BOOLEAN,
                    filter : {"undefined"}],
          fault \in {"none", "order.findUnique", "customer.findUnique",
                     "product.findUnique", "product.create", "media.create"} :
          UploadAndAssignUnder(req, fault)
    \/ Deliver

SpecUploadFaults == InitModerate /\ [][NextUploadFaults]_vars

(***************************************************************************)
(* Bulk metafield writes: lists of up to MaxItems items, the platform      *)
(* rejecting one of the posts or none                                      *)
(***************************************************************************)
NextMetafields ==
    \/ \E n \in 0..MaxItems : \E metafields \in [1..n -> {"color", "size"}] :
       \E failAt \in 0..n : BulkMetafields(metafields, failAt)
    \/ Deliver

SpecMetafields == Init /\ [][NextMetafields]_vars

(***************************************************************************)
(* Properties                                                              *)
(***************************************************************************)
IsUpload(r) == r.op = "upload-and-assign"
VerifiedTrue == {Call("verifyCustomerOwnsProduct", "true"),
                 Call("verifyOrderContainsProduct", "true")}
VerifiedFalse == {Call("verifyCustomerOwnsProduct", "false"),
                  Call("verifyOrderContainsProduct", "false")}
Stores(trace) == Called(trace, "uploadStream") \/ Called(trace, "media.create")
Verifies(trace) ==
    Called(trace, "verifyCustomerOwnsProduct") \/ Called(trace, "verifyOrderContainsProduct")
Neither(req) == ~Truthy(req.customerId) /\ ~Truthy(req.orderId)
Both(req) == Truthy(req.customerId) /\ Truthy(req.orderId)

\* C1: in an upload-and-assign request the upload and the creation of the Media
\* row come only after a positive ownership verification of that request; a
\* negative verification (customer or order path) ends the request with 403, with
\* no upload, no Media row created and the Media table as it was.
C1_UploadOnlyAfterVerification ==
    /\ [](IsUpload(resp) =>
            /\ \A i \in DOMAIN resp.trace :
                  resp.trace[i].call \in {"uploadStream", "media.create"}
                  => \E j \in 1..(i - 1) : resp.trace[j] \in VerifiedTrue
            /\ (\E i \in DOMAIN resp.trace : resp.trace[i] \in VerifiedFalse)
               => resp.status = 403 /\ ~Stores(resp.trace) /\ resp.sent = Absent)
    /\ [][IsUpload(resp')
          /\ ~(\E i \in DOMAIN resp'.trace : resp'.trace[i] \in VerifiedTrue)
          => media' = media]_vars

\* C1 witness: an order-path request was refused with 403 after a negative
\* verification, while the table holds a row of an earlier verified request.
C1_Witness ==
    /\ IsUpload(resp) /\ resp.status = 403
    /\ CalledWith(resp.trace, "verifyOrderContainsProduct", "false")
    /\ resp.req.file /\ Len(media) = 1

\* C2 as stated: a request with neither customerId nor orderId is answered 401
\* whatever its other fields are, with no ownership query and no upload.
C2_Original ==
    IsUpload(resp) /\ Neither(resp.req)
    => resp.status = 401 /\ ~Verifies(resp.trace) /\ ~Stores(resp.trace)

\* C2: a request with neither customerId nor orderId is answered 401 when it
\* carries a productId and 400 when it does not; either way it makes no ownership
\* query, attempts no upload and leaves the Media table unchanged.
C2_NoIdentifierRejected ==
    /\ [](IsUpload(resp) /\ Neither(resp.req) =>
            /\ resp.status = IF Truthy(resp.req.productId) THEN 401 ELSE 400
            /\ resp.trace = <<>> /\ resp.sent = Absent)
    /\ [][IsUpload(resp') /\ Neither(resp'.req)
          => media' = media /\ products' = products]_vars

\* C2 witness: a request with a productId, a file and a signature but no
\* identifier was answered 401.
C2_Witness ==
    /\ IsUpload(resp) /\ Neither(resp.req) /\ resp.status = 401
    /\ resp.req.file /\ SigTruthy(resp.req.signature)

\* C3 as stated: a request reaches ownership verification or the upload only when
\* exactly one of customerId and orderId is supplied.
C3_Original ==
    IsUpload(resp) /\ (Verifies(resp.trace) \/ Stores(resp.trace))
    => (Truthy(resp.req.customerId) /\ ~Truthy(resp.req.orderId))
       \/ (~Truthy(resp.req.customerId) /\ Truthy(resp.req.orderId))

\* C3: a request reaches ownership verification or the upload only when at least
\* one of customerId and orderId is supplied; a request that supplies both is
\* handled as the customer-path request it is without its orderId (the order is
\* never verified), with the same answer and the same rows written.
C3_AtLeastOneIdentifier ==
    /\ [](IsUpload(resp) /\ (Verifies(resp.trace) \/ Stores(resp.trace))
          => ~Neither(resp.req))
    /\ [](IsUpload(resp) /\ Both(resp.req)
          => ~Called(resp.trace, "verifyOrderContainsProduct"))
    /\ [][IsUpload(resp') /\ Both(resp'.req) =>
            \E r \in {UploadAndAssignOutcome([resp'.req EXCEPT !.orderId = Absent],
                                             resp'.env)} :
                /\ resp'.status = r.status /\ resp'.trace = r.trace
                /\ media' = r.media /\ products' = r.products]_vars

\* C3 witness: a request with both identifiers was accepted and its row stored.
C3_Witness ==
    IsUpload(resp) /\ Both(resp.req) /\ resp.status = 200 /\ Len(media) > 0

\* C4: every Media row is created with approved = FALSE, on the customer path and
\* the order path, whatever the request carries.
C4_MediaCreatedUnapproved ==
    [][\A i \in DOMAIN media' : i \notin DOMAIN media => ~media'[i].approved]_vars

\* C4 witness: an order-path request with a filter stored a row, which is pending.
C4_Witness ==
    /\ IsUpload(resp) /\ resp.status = 200 /\ ~Truthy(resp.req.customerId)
    /\ resp.req.filter = "retro"
    /\ ~media[resp.body.media].approved

\* the rows of a product that are approved now
ApprovedNow(productId) ==
    {i \in 1..Len(media) : media[i].approved /\ media[i].shopifyProductId = productId}
ReadOk(op) == resp.op = op /\ resp.status = 200

\* C5 as stated: the gallery, the product media list and every per-item list of
\* GET /order/:id are exactly the rows of the product approved now.
C5_Original ==
    /\ ReadOk("gallery") =>
          resp.body.authorized /\ resp.body.media = ApprovedNow(resp.req.productId)
    /\ ReadOk("product-media") => resp.body.media = ApprovedNow(resp.req.productId)
    /\ ReadOk("order") =>
          \A i \in DOMAIN resp.body.user_media_urls :
              resp.body.user_media_urls[i] = ApprovedNow(items[i].shopifyProductId)

\* C5: the gallery (once ownership is verified) and the product media list are
\* exactly the rows of the requested product approved now, the empty list when
\* there is none; a per-item list of GET /order/:id is that set when the item's
\* product fetch succeeded and empty when it failed.  No list holds a pending row.
C5_ReadsShowApprovedOnly ==
    /\ ReadOk("gallery") =>
          resp.body.authorized /\ resp.body.media = ApprovedNow(resp.req.productId)
    /\ ReadOk("product-media") => resp.body.media = ApprovedNow(resp.req.productId)
    /\ ReadOk("order") =>
          \A i \in DOMAIN resp.body.user_media_urls :
              resp.body.user_media_urls[i] =
                  IF resp.env[i] = "throw" THEN {}
                  ELSE ApprovedNow(items[i].shopifyProductId)

\* C5 witness: the gallery of a product answered with its approved row while a
\* pending row of the same product exists.
C5_Witness ==
    /\ ReadOk("gallery") /\ resp.body.media # {}
    /\ \E i \in DOMAIN media :
          media[i].shopifyProductId = resp.req.productId /\ ~media[i].approved

\* C6: on every existing Media row, a toggle answers the negation of the flag it
\* found and stores it, and two toggles one after the other leave the table as
\* it was.
C6_ToggleTwiceRestores ==
    /\ [](\A id \in DOMAIN media :
            \E r1 \in {ToggleApprovalOn(media, id)} :
            \E r2 \in {ToggleApprovalOn(r1.media, id)} :
                /\ r1.status = 200 /\ r2.status = 200
                /\ r1.approved = ~media[id].approved
                /\ r1.media[id].approved = r1.approved
                /\ r2.approved = media[id].approved
                /\ r2.media = media)
    /\ [][resp'.op = "toggle-approval" /\ resp'.status = 200 =>
            /\ resp'.body.approved = ~media[resp'.req.id].approved
            /\ media' = [media EXCEPT ![resp'.req.id].approved = resp'.body.approved]]_vars

\* C6 witness: a toggle answered approved = FALSE, so the row, created pending,
\* has been toggled to approved and back.
C6_Witness ==
    resp.op = "toggle-approval" /\ resp.status = 200 /\ ~resp.body.approved

\* the rows of the table written for an order with a product
RowsOf(order, product) ==
    Cardinality({i \in DOMAIN items :
                    items[i].orderId = order /\ items[i].shopifyProductId = Num(product)
                    /\ items[i].price = "25.00"})
RECURSIVE QuantityOf(_, _)
QuantityOf(lineItems, product) ==
    IF lineItems = <<>> THEN 0
    ELSE (IF Head(lineItems).product_id = product THEN Head(lineItems).quantity ELSE 0)
         + QuantityOf(Tail(lineItems), product)
CarriesQuantities(lineItems) ==
    \A k \in DOMAIN lineItems : lineItems[k].quantity # NoQty

\* C7 as stated: a webhook whose line items carry quantities creates, for each
\* line item, exactly as many PurchasedItem rows as its quantity, all of the
\* order created by the call and with the line item's product and price.
C7_Original ==
    resp.op = "webhook" /\ resp.status = 200 /\ CarriesQuantities(resp.req.line_items)
    => \A product \in 1..MaxId :
          RowsOf(resp.body.savedOrder, product)
              = QuantityOf(resp.req.line_items, product)

\* the platform calls of the ownership verification and what a caller answers
\* when the verification is negative
OwnershipOps == {"upload-and-assign", "verify-ownership", "gallery"}
NegativeStatus(op) == IF op = "verify-ownership" THEN 200 ELSE 403
Throws(trace) ==
    CalledWith(trace, "verifyCustomerOwnsProduct", "throws")
    \/ CalledWith(trace, "verifyOrderContainsProduct", "throws")

\* C8 as stated: no failure of the verification, of obtaining the platform
\* client included, reaches the caller as a throw.
C8_Original == resp.op \in OwnershipOps => ~Throws(resp.trace)

\* C8: when the platform request of the verification fails, both functions return
\* a negative result and the endpoint answers 403 (verified = FALSE with status
\* 200 on verify-ownership); with no access token available both throw before the
\* request is made and the endpoint answers 500.
C8_UpstreamFailureIsNegative ==
    resp.op \in OwnershipOps =>
        /\ resp.env.gql.kind = "throw" =>
              /\ CalledWith(resp.trace, "verifyCustomerOwnsProduct", "false")
              /\ resp.status = NegativeStatus(resp.op)
              /\ resp.op = "verify-ownership" => ~resp.body.verified
        /\ resp.env.rest.kind = "throw" =>
              /\ CalledWith(resp.trace, "verifyOrderContainsProduct", "false")
              /\ resp.status = 403
        /\ Throws(resp.trace) <=> (Verifies(resp.trace) /\ CurrentToken = NoToken)
        /\ Throws(resp.trace) => resp.status = 500

\* C8 witness: the gallery answered 403 after the platform request failed.
C8_Witness ==
    /\ resp.op = "gallery" /\ resp.env.gql.kind = "throw" /\ resp.status = 403

\* C9: for every customer row and Media row, a like answers liked = TRUE exactly
\* when the customer did not like the media, a second like by the same customer
\* undoes the first, and the like rows and the count are then what they were; a
\* customer never counts twice.
C9_LikeTwiceRestores ==
    /\ [](\A c \in DOMAIN customers, m \in DOMAIN media :
            \E r1 \in {LikeOn(likes, media, c, m)} :
            \E r2 \in {LikeOn(r1.likes, media, c, m)} :
                /\ r1.status = 200 /\ r2.status = 200
                /\ r1.liked = ~BagIn(<<c, m>>, likes)
                /\ r2.liked = ~r1.liked
                /\ r1.likeCount = Cardinality({l \in BagToSet(likes) : l[2] = m})
                                  + (IF r1.liked THEN 1 ELSE -1)
                /\ r2.likeCount = Cardinality({l \in BagToSet(likes) : l[2] = m})
                /\ r2.likes = likes)
    /\ [][resp'.op = "like" /\ resp'.status = 200 =>
            \E c \in {FindByShopifyId(customers, resp'.req.customerId)} :
                /\ resp'.body.liked = ~BagIn(<<c, resp'.req.id>>, likes)
                /\ BagToSet(likes') = IF resp'.body.liked
                                      THEN BagToSet(likes) \cup {<<c, resp'.req.id>>}
                                      ELSE BagToSet(likes) \ {<<c, resp'.req.id>>}
                /\ resp'.body.likeCount
                      = Cardinality({l \in BagToSet(likes') : l[2] = resp'.req.id})]_vars

\* C9 witness: a like answered liked = FALSE with a count of 1: the customer had
\* liked the media and the second request undid it, and the like of the other
\* customer is still counted.
C9_Witness ==
    resp.op = "like" /\ resp.status = 200 /\ ~resp.body.liked /\ resp.body.likeCount = 1

\* a signature that is supplied and is not the MAC of the customer id
Mismatch(req) ==
    req.signature # NoSig /\ req.signature # Hmac(customerSecret, req.customerId)
SignatureRejected(r) == CalledWith(r.trace, "verifyShopifySignature", "false")

\* C10 as stated: with a server secret, a supplied signature that is not the MAC
\* of customerId ends the request with 401 before anything else is done.
C10_Original ==
    resp.op \in OwnershipOps /\ customerSecret # NoSecret /\ Mismatch(resp.req)
    => resp.status = 401

\* C10: the signature is checked only on a request with a customerId (and, on
\* upload-and-assign, a productId) and a non-empty signature; there, with a
\* server secret, a signature that is not the MAC of customerId ends the request
\* with 401 before any ownership query, upload or store access; with no server
\* secret no signature is rejected.
C10_SignatureMismatchRejected ==
    resp.op \in OwnershipOps =>
        \E checked \in {/\ Truthy(resp.req.customerId)
                        /\ SigTruthy(resp.req.signature)
                        /\ IsUpload(resp) => Truthy(resp.req.productId)} :
            /\ (checked /\ customerSecret # NoSecret /\ Mismatch(resp.req))
               => /\ resp.status = 401
                  /\ resp.trace = <<Call("verifyShopifySignature", "false")>>
                  /\ resp.sent = Absent
            /\ SignatureRejected(resp)
               => checked /\ customerSecret # NoSecret /\ Mismatch(resp.req)
            /\ ~checked => ~Called(resp.trace, "verifyShopifySignature")

\* C10 witness: the gallery refused a signature made under another key.
C10_Witness ==
    /\ resp.op = "gallery" /\ resp.status = 401
    /\ resp.req.signature = Hmac(OtherKey, Num(1))

\* the request reached the media host with these options
Sent(r) == IsUpload(r) /\ Called(r.trace, "uploadStream")

\* C11 as stated: for every value of options.filter, the options handed to the
\* media host hold no filter parameter (a key whose value is undefined or the
\* empty string carries nothing, so only a key with a filter name counts here).
C11_Original ==
    Sent(resp) => ~("filter" \in DOMAIN resp.sent
                    /\ resp.sent.filter \notin {"undefined", ""})

ProtectedOps == {"toggle-approval", "listing"}
ValidSession(cookie) == cookie.present /\ cookie.key = JWT_SECRET /\ ~cookie.expired

\* C13: the listing and toggle-approval read or write the store only for a
\* request whose admin_token cookie is a valid JWT; with no cookie, or a forged
\* or expired token, the request is redirected to the login page, the cookie of
\* an invalid token is cleared, and no Media row is read or changed.
C13_AdminRoutesNeedSession ==
    /\ [](resp.op \in ProtectedOps =>
            /\ resp.trace # <<>> => ValidSession(resp.req.cookie)
            /\ ~ValidSession(resp.req.cookie) =>
                  /\ resp.status = 302 /\ resp.trace = <<>>
                  /\ resp.body.clearCookie = resp.req.cookie.present)
    /\ [][resp'.op \in ProtectedOps /\ ~ValidSession(resp'.req.cookie)
          => media' = media]_vars

\* C13 witness: a toggle on an existing row under an expired token was
\* redirected and the cookie cleared.
C13_Witness ==
    /\ resp.op = "toggle-approval" /\ resp.status = 302 /\ resp.body.clearCookie
    /\ resp.req.cookie.expired /\ resp.req.id \in DOMAIN media

\* the strings of a response body that is text
Shown(r) == IF "text" \in DOMAIN r.body THEN r.body.text ELSE {}

\* C14 as stated: no AdminUser row holds a plaintext password, and no response of
\* an admin route (login, setup-admin, listing, toggle) contains an admin's
\* plaintext password.
C14_Original ==
    /\ \A i \in DOMAIN admins : admins[i].password.alg = "bcrypt"
    /\ resp.op \in {"login", "setup-admin", "listing", "toggle-approval"} =>
          \A i \in DOMAIN admins : admins[i].password.of \notin Shown(resp)

\* a webhook that reached the store, and the customer row its payload describes
Stored(r) == r.op = "webhook" /\ r.trace # <<>>
CustomerRowOf(p) ==
    [shopifyId |-> Num(p.customerId), firstName |-> p.firstName,
     lastName |-> p.lastName, email |-> p.email]
HasCustomerRow(table, p) == \E i \in DOMAIN table : table[i] = CustomerRowOf(p)
IsPrefix(old, new) == Len(old) <= Len(new) /\ SubSeq(new, 1, Len(old)) = old

\* a complete payload, delivered to a store that fails no call, whose platform
\* order id an Order row already has (r is the answer, the tables are those
\* before the request)
Redelivered(r) ==
    /\ r.op = "webhook" /\ ~r.req.empty /\ r.req.hasCustomer /\ r.req.hasLineItems
    /\ r.env.fault = NoFault
    /\ \E i \in DOMAIN orders : orders[i].shopifyId = Num(r.req.id)

\* C16 as stated: a webhook whose platform order id is already stored succeeds
\* again and adds a second Order row with the same platform id.
C16_Original ==
    [][Redelivered(resp') => resp'.status = 200 /\ Len(orders') = Len(orders) + 1]_vars

\* C16: a webhook whose platform order id is already stored is answered 500 at
\* the order creation: the customer upsert is applied again, and no Order row and
\* no PurchasedItem row is added.
C16_RedeliveryRejected ==
    [][Redelivered(resp') =>
          /\ resp'.status = 500
          /\ resp'.trace = <<"customer.upsert", "order.create:throw">>
          /\ HasCustomerRow(customers', resp'.req)
          /\ orders' = orders
          /\ items' = items]_vars

\* the same order delivered a second time: the one Order row keeps its one set
\* of PurchasedItem rows
C16_Witness ==
    /\ resp.op = "webhook" /\ resp.status = 500 /\ resp.env.fault = NoFault
    /\ Len(resp.trace) = 2
    /\ Len(orders) = 1 /\ orders[1].shopifyId = Num(resp.req.id)
    /\ Len(items) > 1
    /\ items = ExpandLineItems(resp.req.line_items, 1)

\* C17: after any sequence of webhooks no two Order rows have the same platform
\* order id.
C17_UniquePlatformOrderId ==
    \A i, j \in DOMAIN orders : orders[i].shopifyId = orders[j].shopifyId => i = j

\* every platform order id is stored and one more delivery was turned down
C17_Witness ==
    /\ Len(orders) = MaxId
    /\ resp.op = "webhook" /\ resp.status = 500
    /\ resp.trace = <<"customer.upsert", "order.create:throw">>

\* C18: there is one Customer row per platform customer id; a processed webhook
\* leaves the row of its customer with the payload's name and email, adds a row
\* only for a customer not yet known, and changes no other Customer row and no
\* existing Order or PurchasedItem row.
C18_OneCustomerPerPlatformId ==
    /\ [](\A i, j \in DOMAIN customers :
             customers[i].shopifyId = customers[j].shopifyId => i = j)
    /\ [][Stored(resp') =>
             LET p == resp'.req
                 known == \E i \in DOMAIN customers :
                              customers[i].shopifyId = Num(p.customerId)
             IN /\ HasCustomerRow(customers', p)
                /\ Len(customers') = Len(customers) + (IF known THEN 0 ELSE 1)
                /\ \A i \in DOMAIN customers :
                      customers[i].shopifyId # Num(p.customerId)
                      => customers'[i] = customers[i]
                /\ IsPrefix(orders, orders')
                /\ IsPrefix(items, items')]_vars

\* a repeat purchase under another first name: one Customer row, two orders
C18_Witness ==
    /\ resp.op = "webhook" /\ resp.status = 200
    /\ Len(customers) = 1 /\ Len(orders) = 2
    /\ orders[1].customerId = 1 /\ orders[2].customerId = 1
    /\ resp.req.firstName = "Bea" /\ customers[1].firstName = "Bea"
    /\ orders[1].currency # orders[2].currency

\* C19: the three write steps are not one transaction. When the order creation
\* fails the answer is 500 and the upserted Customer row stays with no Order
\* row added; when the k-th PurchasedItem creation fails the answer is 500 and
\* the Order row and the k-1 rows created before stay. Nothing written before
\* the failure is undone.
C19_PartialWritesStay ==
    [][resp'.op = "webhook" /\ resp'.env.fault >= 2 =>
          LET p == resp'.req
              k == resp'.env.fault - 2
              created == Len(orders) + 1
          IN /\ resp'.status = 500
             /\ HasCustomerRow(customers', p)
             /\ IsPrefix(orders, orders') /\ IsPrefix(items, items')
             /\ IF k = 0 THEN orders' = orders /\ items' = items
                ELSE /\ Len(orders') = created
                     /\ orders'[created].shopifyId = Num(p.id)
                     /\ items' = items \o SubSeq(ExpandLineItems(p.line_items, created),
                                                 1, k - 1)
                     /\ Len(items') = Len(items) + k - 1]_vars

\* the second PurchasedItem creation failed: the order and its first row stay
C19_Witness ==
    /\ resp.op = "webhook" /\ resp.status = 500 /\ resp.env.fault = 4
    /\ Len(customers) = 1 /\ Len(orders) = 1 /\ Len(items) = 1
    /\ items[1].orderId = 1

\* a toggle in a slot that has read the row and not yet written, or has written
Toggling(slot, pc) == slot.op = "toggle-approval" /\ slot.pc = pc

\* C15: a toggle writes the negation of the flag it read, whatever the row holds
\* by then, and answers with it; so when another toggle of the same row that read
\* the same flag has written already, the write leaves the row as that toggle
\* left it: the row is flipped once by the two.
C15_InterleavedTogglesFlipOnce ==
    [][\A s \in Slots :
          Toggling(pending[s], "update") /\ Toggling(pending'[s], "done") =>
             LET id == pending[s].req.id
                 read == pending[s].local.approved
             IN /\ media'[id].approved = ~read
                /\ pending'[s].body.approved = ~read
                /\ \A t \in Slots \ {s} :
                      /\ Toggling(pending[t], "done") /\ pending[t].status = 200
                      /\ pending[t].req.id = id /\ pending[t].local.approved = read
                      /\ media[id].approved = ~read
                      => media' = media]_vars

\* two toggles of one row have both read FALSE and both written: both answer
\* approved = TRUE and the row is approved
C15_Witness ==
    \E s, t \in Slots :
        /\ s # t
        /\ Toggling(pending[s], "done") /\ Toggling(pending[t], "done")
        /\ pending[s].status = 200 /\ pending[t].status = 200
        /\ pending[s].req.id = pending[t].req.id
        /\ ~pending[s].local.approved /\ ~pending[t].local.approved
        /\ pending[s].body.approved /\ pending[t].body.approved
        /\ media[pending[s].req.id].approved

\* the customers that like a media
Likers(rows, mediaId) == {l[1] : l \in {k \in BagToSet(rows) : k[2] = mediaId}}

\* C20: under every interleaving of like requests there is at most one Like row
\* per pair of customer and media, and the likeCount a request reports is the
\* number of distinct customers that like the media when it is counted.
C20_OneLikePerPair ==
    /\ [](\A l \in BagToSet(likes) : CopiesIn(l, likes) = 1)
    /\ [][\A s \in Slots :
             pending[s].pc = "count" /\ pending'[s].pc = "done" =>
                /\ pending'[s].status = 200
                /\ pending'[s].body.likeCount
                      = Cardinality(Likers(likes', pending[s].req.id))]_vars

\* two likes of one customer on one media overlapped, both found no row: one
\* created the row and reports it, the create of the other was turned down
C20_Witness ==
    \E s, t \in Slots :
        /\ s # t
        /\ pending[s].op = "like" /\ pending[t].op = "like"
        /\ pending[s].pc = "done" /\ pending[t].pc = "done"
        /\ pending[s].req = pending[t].req
        /\ pending[s].status = 200 /\ pending[s].body.liked
        /\ pending[s].body.likeCount = 1
        /\ pending[t].status = 500 /\ pending[t].local.existingLike = "null"
        /\ CopiesIn(<<pending[s].local.dbCustomer, pending[s].req.id>>, likes) = 1

\* the local row of the customer with this platform id, in either form, when a
\* webhook recorded a purchase of the product by that customer
RecordedBuyer(customerId, productId) ==
    {c \in DOMAIN customers :
        /\ customers[c].shopifyId.n = customerId.n
        /\ \E o \in DOMAIN orders, i \in DOMAIN items :
              /\ orders[o].customerId = c
              /\ items[i].orderId = o
              /\ items[i].shopifyProductId.n = productId.n}

\* C23 as stated: a successful customer-path upload by a customer whose purchase
\* of the product the webhook recorded stores a Media row that refers to that
\* customer's local row, in the numeric and in the global-id form of customerId.
C23_Original ==
    IsUpload(resp) /\ resp.status = 200 /\ Truthy(resp.req.customerId) =>
        \A c \in RecordedBuyer(resp.req.customerId, resp.req.productId) :
            media[resp.body.media].customerId = c

\* the request with the signature the server's secret gives its customerId
Signed(req) == [req EXCEPT !.signature = Hmac(customerSecret, req.customerId)]
\* the calls of a trace other than the signature check
Unsigned(trace) ==
    LET Other(c) == c.call # "verifyShopifySignature" IN SelectSeq(trace, Other)
Omitted(r) ==
    /\ r.op \in OwnershipOps /\ customerSecret # NoSecret
    /\ Truthy(r.req.customerId) /\ r.req.signature \in {NoSig, EmptySig}

\* C29: with a server secret configured, a customer-path request that omits the
\* signature is answered, and changes the store, exactly as the same request
\* carrying the valid signature would under the same platform answers: the same
\* status and body, the same calls but for the signature check, the same Product
\* and Media rows.
C29_OmittedSignatureAsValid ==
    [][Omitted(resp') =>
          LET req == resp'.req
              env == resp'.env
              Same(r) == /\ r.status = resp'.status
                         /\ r.body = resp'.body
                         /\ Unsigned(r.trace) = resp'.trace
          IN CASE resp'.op = "upload-and-assign" ->
                     \E r \in {UploadAndAssignOutcome(Signed(req), env)} :
                         /\ Same(r)
                         /\ r.products = products' /\ r.media = media'
                         /\ r.sent = resp'.sent
               [] resp'.op = "verify-ownership" ->
                     \E r \in {VerifyOwnershipOutcome(Signed(req), env.gql)} : Same(r)
               [] resp'.op = "gallery" ->
                     \E r \in {GalleryOutcome(Signed(req), env.gql)} : Same(r)]_vars

\* with the secret configured, an upload that carries no signature stored a row
C29_Witness ==
    /\ IsUpload(resp) /\ resp.status = 200 /\ customerSecret = ServerSecret
    /\ Truthy(resp.req.customerId) /\ resp.req.signature = NoSig
    /\ resp.body.media \in DOMAIN media

\* the step added one row at the end of the Media table and kept the others
MediaAppended ==
    /\ Len(media') = Len(media) + 1
    /\ SubSeq(media', 1, Len(media)) = media
\* the step changed nothing of the Media table but the approved flag of row id
OnlyApprovedOf(id) ==
    /\ id \in DOMAIN media /\ DOMAIN media' = DOMAIN media
    /\ \A i \in DOMAIN media :
          IF i = id THEN [media'[i] EXCEPT !.approved = media[i].approved] = media[i]
          ELSE media'[i] = media[i]

\* C27: a step that changes the Media table is either a successful submission,
\* which appends one row, or a toggle-approval answered 200, which changes only
\* the approved flag of the row it names; no row is ever removed; a toggle that
\* names a missing id is answered 404 (or redirected) and changes nothing; likes,
\* reads, webhooks and the other admin routes leave the table as it was.
C27_MediaWrittenBySubmitAndToggle ==
    [][/\ media' # media =>
              \/ IsUpload(resp') /\ resp'.status = 200 /\ MediaAppended
              \/ /\ resp'.op = "toggle-approval" /\ resp'.status = 200
                 /\ OnlyApprovedOf(resp'.req.id)
       /\ resp'.op = "toggle-approval" /\ resp'.req.id \notin DOMAIN media =>
              /\ media' = media
              /\ resp'.status = IF requireAuth(resp'.req.cookie).next THEN 404 ELSE 302
      ]_vars

\* a toggle answered 200 with two rows stored and a like recorded
C27_Witness ==
    /\ resp.op = "toggle-approval" /\ resp.status = 200
    /\ Len(media) = MaxMedia /\ likes # EmptyBag
    /\ \E i \in DOMAIN media : media[i].approved # media[resp.req.id].approved

\* C30: a logout answers with the redirect that clears the cookie and leaves
\* every table and the access token as they were; the token it was sent with
\* verifies after it exactly as before; and in every state, after any number of
\* logouts, a toggle or listing that presents a token whose signature and expiry
\* verify is let through to the handler.
C30_LogoutKeepsSessions ==
    /\ [][resp'.op = "logout" =>
              /\ resp'.status = 302 /\ resp'.body.clearCookie /\ resp'.trace = <<>>
              /\ UNCHANGED <<accessToken, envToken, customerSecret, customers, orders,
                             items, products, media, likes, admins, pending>>]_vars
    /\ [](resp.op = "logout" =>
              requireAuth(resp.req.cookie).next = ValidSession(resp.req.cookie))
    /\ [](resp.op \in ProtectedOps /\ ValidSession(resp.req.cookie) =>
              resp.status # 302 /\ resp.trace # <<>>)

\* a logout sent with the token of the stored admin, with pictures to moderate
C30_Witness ==
    /\ resp.op = "logout" /\ ValidSession(resp.req.cookie)
    /\ resp.req.cookie.id \in DOMAIN admins /\ media # <<>>

\* the calls of upload-and-assign whose exception reaches the outer catch
OuterCalls ==
    {"uploadStream", "order.findUnique", "customer.findUnique", "product.findUnique",
     "media.create", "verifyCustomerOwnsProduct", "verifyOrderContainsProduct"}
\* the calls made inside the try around the product fetch and creation
InnerCalls == {"getProduct", "product.create"}
Threw(trace, calls) ==
    \E i \in DOMAIN trace : trace[i].call \in calls /\ trace[i].out \in {"throw", "throws"}

\* C21 as stated: an exception in any step of upload-and-assign, Product
\* resolution included, is answered 500 with the error's message and leaves the
\* Media rows as they were; a request that does not succeed creates no Media row.
C21_Original ==
    [][IsUpload(resp') =>
          /\ Threw(resp'.trace, OuterCalls \cup InnerCalls) =>
                 resp'.status = 500 /\ "error" \in DOMAIN resp'.body /\ media' = media
          /\ resp'.status # 200 => media' = media]_vars

\* C21, amended: an exception of the upload, of a store lookup (order, customer,
\* product) or of the Media creation is answered 500 with the error's message and
\* leaves the Media rows as they were; a request that does not succeed creates no
\* Media row.  (An exception of the product fetch or Product creation is caught
\* inside and does not end the request.)
C21_OuterExceptionsAnswer500 ==
    [][IsUpload(resp') =>
          /\ Threw(resp'.trace, OuterCalls) =>
                 /\ resp'.status = 500 /\ DOMAIN resp'.body = {"error"}
                 /\ media' = media
          /\ resp'.status # 200 => media' = media
          /\ media' # media => resp'.status = 200]_vars

\* the Media creation failed after the Product row of this request was written
C21_Witness ==
    /\ IsUpload(resp) /\ resp.status = 500
    /\ CalledWith(resp.trace, "media.create", "throws")
    /\ CalledWith(resp.trace, "product.create", "ok")
    /\ media = <<>> /\ products # <<>>

\* the submission found no Product row, and the product fetch or the creation of
\* the row failed
ProductUnresolved(r) ==
    /\ IsUpload(r)
    /\ r.env.product \in {"null", "throw"} \/ r.env.fault = "product.create"

\* C22: when a submission finds no local Product row and the product fetch
\* fails (or answers no product), or the creation of the row fails, the request
\* still succeeds unless the Media creation itself fails: a Media row is stored
\* with a null product reference and the platform product id of the request, and
\* no Product row is stored for that id.
C22_UnresolvedProductStillStored ==
    ProductUnresolved(resp) /\ resp.env.fault # "media.create" =>
        /\ resp.status = 200 /\ resp.body.success
        /\ resp.body.media \in DOMAIN media
        /\ media[resp.body.media].productId = NullRef
        /\ media[resp.body.media].shopifyProductId = resp.req.productId
        /\ FindByShopifyId(products, resp.req.productId) = NullRef

\* the creation of the Product row failed and the picture was stored all the same
C22_Witness ==
    /\ ProductUnresolved(resp) /\ resp.status = 200
    /\ CalledWith(resp.trace, "product.create", "throws")
    /\ media[resp.body.media].productId = NullRef

IsBulk(r) == r.op = "metafields-bulk"

\* C26: the bulk write posts the items one at a time in the order given; when
\* the post of item k fails, the items before k are written and stay written,
\* item k and the items after it are not written (the ones after are never
\* posted), and the answer is one 500 whose body holds the error and none of the
\* written items; with no failure every item is written and reported in order.
C26_BulkStopsAtFirstFailure ==
    IsBulk(resp) =>
        LET given == resp.req.metafields
            k == IF CurrentToken = NoToken /\ given # <<>> THEN 1 ELSE resp.env.failAt
        IN IF k = 0
           THEN /\ resp.status = 200 /\ resp.body = [metafields |-> given]
                /\ resp.sent = given /\ Len(resp.trace) = Len(given)
           ELSE /\ resp.status = 500 /\ DOMAIN resp.body = {"error"}
                /\ resp.sent = SubSeq(given, 1, k - 1)
                /\ Len(resp.trace) = k
                /\ \A i \in 1..(k - 1) : resp.trace[i].out = "ok"
                /\ resp.trace[k].out = "throws"

\* the second of three posts was rejected
C26_Witness ==
    /\ IsBulk(resp) /\ resp.status = 500 /\ resp.env.failAt = 2
    /\ Len(resp.req.metafields) = MaxItems /\ Len(resp.sent) = 1

\* the callback in slot s settled in this step
CallbackSettles(s) ==
    /\ pending[s].op = "callback" /\ pending[s].pc = "auth"
    /\ pending'[s].pc = "done"

\* C28: the in-memory token starts null; a callback that succeeds stores its own
\* token, whatever was stored before, so that after racing callbacks the token
\* is that of the one that settled last; a callback that fails leaves the token
\* as it was; no other step changes the token and none sets it back to null;
\* and the status route answers authenticated = (the in-memory token is set).
C28_TokenWrittenBySuccessfulCallback ==
    /\ accessToken = NoToken
    /\ [][/\ \A s \in Slots :
                CallbackSettles(s) =>
                    IF pending'[s].status = 200
                    THEN accessToken' = pending'[s].body.token
                    ELSE accessToken' = accessToken
          /\ accessToken' # accessToken =>
                /\ \E s \in Slots : CallbackSettles(s) /\ pending'[s].status = 200
                /\ accessToken' # NoToken
          /\ resp'.op = "status" /\ resp' # resp =>
                resp'.body.authenticated = (accessToken # NoToken)]_vars

\* two callbacks raced and the one taken first settled last: its token is stored
C28_Witness ==
    /\ \A s \in {1, 2} : pending[s].op = "callback" /\ pending[s].pc = "done"
    /\ pending[1].status = 200 /\ pending[2].status = 200
    /\ pending[1].body.token # pending[2].body.token
    /\ accessToken = pending[1].body.token
    /\ resp.op = "status" /\ resp.body.authenticated

\* C25: under any interleaving of setup-admin requests at most one AdminUser row
\* exists; a row is added only by a setup-admin request that counted none, and
\* only while there is none; a setup-admin request that arrives when a row
\* exists is answered 403 at once and creates nothing.
C25_SetupAdminOnce ==
    /\ [](Len(admins) <= 1)
    /\ [][/\ \A s \in Slots :
                pending[s] = FreeSlot /\ pending'[s].op = "setup-admin" /\ admins # <<>>
                    => /\ pending'[s].pc = "done" /\ pending'[s].status = 403
                       /\ admins' = admins
          /\ admins' # admins =>
                /\ admins = <<>> /\ Len(admins') = 1
                /\ \E s \in Slots :
                      /\ pending[s].op = "setup-admin" /\ pending[s].pc = "create"
                      /\ pending'[s].status = 200]_vars

\* two requests counted no admin; one created the row and the other failed
C25_Witness ==
    /\ \A s \in {1, 2} : pending[s].op = "setup-admin" /\ pending[s].pc = "done"
    /\ {pending[1].status, pending[2].status} = {200, 500}
    /\ Len(admins) = 1

\* the submission in slot s is at the product fetch, having found no Product row
FoundNone(s) ==
    /\ pending[s].op = "upload-and-assign" /\ pending[s].pc = "create"
    /\ pending[s].local.dbProduct = NullRef

\* C24: under any interleaving of submissions no two Product rows hold the same
\* platform product id, and a Product row is added only by a submission whose
\* lookup found none, as one row with the platform product id of its request.
C24_OneProductPerPlatformId ==
    /\ [](\A i, j \in DOMAIN products :
              products[i].shopifyId = products[j].shopifyId => i = j)
    /\ [][products' # products =>
              \E s \in Slots :
                  /\ FoundNone(s) /\ pending'[s].pc = "store"
                  /\ products' = Append(products, [shopifyId |-> pending[s].req.productId,
                                                   name |-> "title"])]_vars

\* two first submissions of one product overlapped: both found no row, one
\* created it, and both pictures were stored
C24_Witness ==
    /\ \A s \in {1, 2} :
          /\ pending[s].op = "upload-and-assign" /\ pending[s].status = 200
          /\ pending[s].req.productId = Num(1)
    /\ Len(products) = 1 /\ Len(media) = 2
    /\ {media[1].productId, media[2].productId} = {1, NullRef}

====
